---- MODULE Spec2Model ----
(***************************************************************************)
(* The multi-backend storage layer of GeoReasonBench-Collector:            *)
(* StorageAdapter (storage-adapter.ts) over its four backends,             *)
(*   trueLocalFile : TrueLocalStorageManager + the express file server,    *)
(*   localFile     : LocalFileStorageManager (File System Access API),     *)
(*   fileSystem    : FileStorageManager (localStorage),                    *)
(*   indexedDB     : DatabaseManager.                                      *)
(* Every I/O primitive the code wraps in try/catch can fail: the set F of  *)
(* an operation names the primitives that fail during that call.           *)
(***************************************************************************)
EXTENDS Integers, Sequences, FiniteSets, TLC

\* ------------------------------------------------------------------ bounds
NumIds == 2          \* record ids are 1..NumIds
MaxOps == 2          \* storage calls issued in one behaviour
MaxPending == 1      \* background image writes in flight (indexedDB)
MaxEdits == 2        \* edits of records after the first save
MaxEntries == 2      \* records in a backup file
MaxRecoveryFailures == 1 \* attempts of the safety restore that fail

\* ---------------------------------------------------------- program constants
KeepImages == 50     \* cleanupOldImages keeps the newest 50 image_ keys
RetryKeepImages == 30 \* saveEntry's retry calls cleanupStorage({maxImages: 30})

\* -------------------------------------------------------------------- data
Ids == 1..NumIds
Texts == {"Q1", "Q2"}
Keys == {"tagConfigs", "exportConfig"}
CfgVals == {"cfgA", "cfgB"}
NoCfg == "null"                     \* getConfig's null
EmptyCfg == "empty"                 \* FileStorageManager's initial [] / {}

StorageModes == {"trueLocalFile", "localFile", "fileSystem", "indexedDB"}

\* An image field: undefined, a data URI (media type, payload, encoding quality),
\* a server/directory path images/<id>.jpg, or a localStorage key image_<id>.
NoImage == [kind |-> "none", mime |-> "-", data |-> "-", q |-> "-"]
DataURI(m, d, q) == [kind |-> "data", mime |-> m, data |-> d, q |-> q]
PathRef == [kind |-> "path", mime |-> "-", data |-> "-", q |-> "-"]
KeyRef == [kind |-> "key", mime |-> "-", data |-> "-", q |-> "-"]
InputImages == {DataURI("jpeg", "A", "orig"), DataURI("png", "B", "orig")}

\* The raw bytes written to <id>.jpg: the payload without its media type.
Bytes(img) == [kind |-> "bytes", mime |-> "-", data |-> img.data, q |-> img.q]
\* Reading <id>.jpg back always labels the payload image/jpeg.
JpegURI(bytes) == DataURI("jpeg", bytes.data, bytes.q)
\* canvas.toDataURL('image/jpeg', quality): a lossy re-encoding.
compressImage(img, quality) == DataURI("jpeg", img.data, quality)
\* generateThumbnail: a 150px jpeg at quality 0.7.
generateThumbnail(img) == DataURI("jpeg", img.data, "thumb")

\* A DataEntry (types: id, image?, query and the other text fields as one).
Stamps == 1..MaxOps                 \* updatedAt: the time of the call that saved
Entries == [id : Ids, query : Texts, image : {NoImage} \cup InputImages,
            updatedAt : Stamps]
Absent == [id |-> 0, query |-> "-", image |-> NoImage, updatedAt |-> 0]
NoEntries == [i \in Ids |-> Absent]
NoImages == [i \in Ids |-> NoImage]
NoConfigs == [k \in Keys |-> NoCfg]
IdsOf(entries) == {i \in DOMAIN entries : entries[i] # Absent}
\* Every id a record can have: the application's and the legacy store's.
IdSpace == Ids \cup 1..120

\* MigrationStatus (isCompleted, version, entriesCount, configsCount), kept under
\* the key 'migrationStatus' of the IndexedDB store 'configs'.
MIGRATION_STATUS == "migrationStatus"
MIGRATION_VERSION == "1.0.0"
NoStatus == [present |-> FALSE, isCompleted |-> FALSE, version |-> "",
             entriesCount |-> 0, configsCount |-> 0]
\* A text is a sequence of UTF-16 code units. No text and no item under the key.
NoValue == [type |-> "none", name |-> "", chars |-> <<>>]
NoResult == [null |-> TRUE, threw |-> FALSE, text |-> <<>>, value |-> NoValue]
NoItem == [pc |-> "idle", x |-> <<>>, c |-> <<>>, y |-> NoResult,
           value |-> NoValue, item |-> <<>>, wrote |-> "none", read |-> FALSE,
           got |-> NoResult]
\* No legacy keys in localStorage and no migrate() under way.
NoMigration == [dataEntries |-> <<>>, tagConfigs |-> NoCfg, exportConfig |-> NoCfg,
                pc |-> "idle", at |-> 0, migratedCount |-> 0, configsCount |-> 0,
                valid |-> TRUE, attempted |-> {}, rejected |-> {}, reports |-> <<>>, runs |-> 0]

\* entries.sort((a, b) => new Date(b.updatedAt) - new Date(a.updatedAt)): stable.
\* An element goes behind the later-stamped ones and behind the equally stamped
\* ones that stood before it.
Only(S) == CHOOSE x \in S : TRUE
SortDesc(seq) ==
  Only({[p \in 1..Len(seq) |-> seq[CHOOSE n \in 1..Len(seq) : pos[n] = p]] :
          pos \in {[n \in 1..Len(seq) |->
                     Cardinality({k \in 1..Len(seq) :
                        \/ seq[k].updatedAt > seq[n].updatedAt
                        \/ seq[k].updatedAt = seq[n].updatedAt /\ k <= n})]}})

\* Object.entries(obj): the keys present, in the order they were inserted.
KeysOf(order, entries) == SelectSeq(order, LAMBDA i : entries[i] # Absent)
\* The ids in ascending order (IDBObjectStore.getAll() returns rows by key).
Ascending(S) ==
  Only({SelectSeq([i \in 1..Cardinality(IdSpace) |-> i], LAMBDA i : i \in T) :
          T \in {S}})
\* obj[id] = ..., delete obj[id]: a key that goes leaves the order, a new key is
\* appended to it.
KeyOrderAfter(order, entries) ==
  KeysOf(order, entries)
    \o Ascending({i \in IdsOf(entries) : \A n \in 1..Len(order) : order[n] # i})
WithoutImage(e) == IF e = Absent THEN Absent ELSE [e EXCEPT !.image = NoImage]

\* What can go wrong during one call, per backend and method: each element is the
\* set of primitives that fail (and, for fileSystem, of storage conditions that
\* hold) during that call.
\*   net        fetch rejects            read      reading entries fails
\*   write      writing entries fails    imgWrite  writing <id>.jpg fails
\*   imgRead    reading <id>.jpg fails   unlink    removing <id>.jpg fails
\*   quota      setItem(image_<id>) throws QuotaExceeded
\*   quotaRetry the quality-0.4 setItem throws too
\*   dataQuota  setItem('georeasonbench-storage') throws
\*   usageHigh  checkStorageSpace reports more than 80% used
\*   freed      the retry's cleanupStorage made room for the image
\*   hashOrder  for..in walks the keys of localStorage in another order than
\*              their insertion (the order of Storage keys is user-agent defined)
TlFaults(op) ==
  CASE op = "saveEntry" -> {{}, {"net"}, {"read"}, {"imgWrite"}, {"write"}}
    [] op \in {"getEntry", "getAllEntries"} -> {{}, {"net"}, {"read"}, {"imgRead"}}
    [] op = "deleteEntry" -> {{}, {"net"}, {"read"}, {"unlink"}, {"write"}}
    [] op = "saveConfig" -> {{}, {"net"}, {"write"}}
    [] op = "getConfig" -> {{}, {"net"}, {"read"}}
    [] OTHER -> {{}, {"net"}, {"unlink"}, {"write"}}
LfFaults(op) ==
  CASE op = "saveEntry" -> {{}, {"write"}, {"imgWrite"}, {"quota"}, {"dataQuota"},
                            {"write", "dataQuota"}, {"imgWrite", "quota"}}
    [] op \in {"getEntry", "getAllEntries"} -> {{}, {"imgRead"}}
    [] op = "deleteEntry" -> {{}, {"unlink"}, {"write"}, {"dataQuota"},
                              {"write", "dataQuota"}}
    [] op \in {"saveConfig", "getConfig"} -> {{}}
    [] OTHER -> {{}, {"unlink"}, {"write"}}
FsFaults(op) ==
  CASE op = "saveEntry" -> {{}, {"usageHigh"}, {"quota"}, {"quota", "quotaRetry"},
                            {"quota", "quotaRetry", "freed"}, {"dataQuota"}}
    [] op \in {"deleteEntry", "saveConfig"} -> {{}, {"dataQuota"}}
    [] OTHER -> {{}}
DbFaults(op) ==
  CASE op \in {"saveEntry", "deleteEntry", "saveConfig", "clearAll"} -> {{}, {"write"}}
    [] OTHER -> {{}, {"read"}}
FaultsOf(m, op) ==
  CASE m = "trueLocalFile" -> TlFaults(op)
    [] m = "localFile" -> LfFaults(op)
    [] m = "fileSystem" -> FsFaults(op)
    [] OTHER -> DbFaults(op)

VARIABLES
  serverUp,        \* environment: the file server answers GET /api/stats
  dirAccess,       \* environment: how requestDirectoryAccess went ("unasked" before)
  mode,            \* StorageAdapter.mode
  initialized,     \* StorageAdapter.initialized
  initPc,          \* position of StorageAdapter.initializeStorage
  observed,        \* modes returned by getCurrentMode / backends reached by calls
  tlReady,         \* TrueLocalStorageManager.isInitialized && serverAvailable
  srvEntries,      \* server: data/entries.json
  srvImages,       \* server: data/images/<id>.jpg
  srvConfig,       \* server: data/<key>.json
  lfHandles,       \* LocalFileStorageManager.directoryHandle / imagesDirectoryHandle
  lfEntries,       \* LocalFileStorageManager.storageData.entries
  dirEntries,      \* picked directory: entries.json
  dirImages,       \* picked directory: images/<id>.jpg
  lsStorage,       \* localStorage['georeasonbench-storage']
  lsImages,        \* localStorage['image_<id>'], in insertion order
  fsEntries,       \* FileStorageManager.storageData.entries
  fsConfig,        \* FileStorageManager.storageData.tagConfigs / exportConfig
  idbEntries,      \* IndexedDB store 'entries'
  idbImages,       \* IndexedDB store 'images'
  idbConfigs,      \* IndexedDB store 'configs'
  idbPending,      \* unawaited saveImageDataAsync calls
  idbLog,          \* ids whose background image save was logged as failed
  keyOrder,        \* key order of the active backend's entries object
  last,            \* the call that completed last and what its caller got
  ops,             \* number of calls issued
  posts,           \* server: the POST /api/entries handlers in progress, by record id
  dataEntries,     \* App: appState.dataEntries, by record id
  safetyBackup,    \* localStorage['safety_backup']
  mig,             \* MigrationManager: the legacy localStorage keys and migrate()'s position
  lz               \* compression.ts: a text through LZString, a localStorage item through set/getCompressedItem

envVars == <<serverUp, dirAccess>>
adapterVars == <<mode, initialized, initPc>>
appVars == <<posts, dataEntries, safetyBackup, mig, lz>>
backendVars == <<tlReady, srvEntries, srvImages, srvConfig, lfHandles, lfEntries,
                 dirEntries, dirImages, lsStorage, lsImages, fsEntries, fsConfig,
                 idbEntries, idbImages, idbConfigs, idbPending, idbLog, keyOrder>>
vars == <<serverUp, dirAccess, mode, initialized, initPc, observed,
          tlReady, srvEntries, srvImages, srvConfig, lfHandles, lfEntries,
          dirEntries, dirImages, lsStorage, lsImages, fsEntries, fsConfig,
          idbEntries, idbImages, idbConfigs, idbPending, idbLog, keyOrder,
          last, ops, posts, dataEntries, safetyBackup, mig, lz>>

\* The state of all backends and their media, passed through the operations.
World == [tlReady |-> tlReady, srvEntries |-> srvEntries, srvImages |-> srvImages,
          srvConfig |-> srvConfig, lfHandles |-> lfHandles, lfEntries |-> lfEntries,
          dirEntries |-> dirEntries, dirImages |-> dirImages,
          lsStorage |-> lsStorage, lsImages |-> lsImages,
          fsEntries |-> fsEntries, fsConfig |-> fsConfig,
          idbEntries |-> idbEntries, idbImages |-> idbImages,
          idbConfigs |-> idbConfigs, idbPending |-> idbPending, idbLog |-> idbLog,
          keyOrder |-> keyOrder]

\* What a call leaves behind: the world, whether its promise resolved (ok),
\* whether a primitive of the backend failed on the way (failed), what it returned.
Outcome(w, ok, failed, entry, cfg, list) ==
  [w |-> w, ok |-> ok, failed |-> failed, entry |-> entry, cfg |-> cfg, list |-> list,
   settled |-> TRUE]
Done(w, failed) == Outcome(w, TRUE, failed, Absent, NoCfg, <<>>)
Thrown(w) == Outcome(w, FALSE, TRUE, Absent, NoCfg, <<>>)
\* A call whose promise is never resolved nor rejected.
Pending(w) == [Outcome(w, FALSE, FALSE, Absent, NoCfg, <<>>) EXCEPT !.settled = FALSE]

\* ===================================================== localStorage (image keys)
\* lsImages is a sequence of <<key, data>>, a key being <<prefix, id>>, in the
\* order the keys were inserted. forIn is the order `for (key in localStorage)`
\* walks them: the user agent's.
forIn(seq, F) ==
  IF "hashOrder" \in F THEN [n \in 1..Len(seq) |-> seq[Len(seq) + 1 - n]] ELSE seq
ImageKey(i) == <<"image_", i>>                \* `image_${entryId}`
LsHas(seq, k) == \E n \in 1..Len(seq) : seq[n][1] = k
LsGet(seq, k) == IF LsHas(seq, k)
                 THEN seq[CHOOSE n \in 1..Len(seq) : seq[n][1] = k][2]
                 ELSE NoImage
LsSet(seq, k, d) == IF LsHas(seq, k)
                    THEN [n \in 1..Len(seq) |-> IF seq[n][1] = k THEN <<k, d>> ELSE seq[n]]
                    ELSE Append(seq, <<k, d>>)
LsRemove(seq, k) == SelectSeq(seq, LAMBDA p : p[1] # k)
LsRemovePrefix(seq, pre) == SelectSeq(seq, LAMBDA p : p[1][1] # pre)
NoStorage == [present |-> FALSE, entries |-> NoEntries, cfg |-> NoConfigs]

\* ============================================ trueLocalFile: the express server
\* readDataFile: a failed read is caught and answered with an empty data set.
readDataFile(w, F) == IF "read" \in F THEN NoEntries ELSE w.srvEntries

\* readImageFile: null (here NoImage) when the file is missing or unreadable.
readImageFile(w, i, F) ==
  IF "imgRead" \in F \/ w.srvImages[i] = NoImage THEN NoImage ELSE JpegURI(w.srvImages[i])

\* { ...entry, image: imageData } when the stored image is a path that loads.
entryWithImage(w, e, F) ==
  IF e.image.kind = "path" /\ readImageFile(w, e.id, F) # NoImage
  THEN [e EXCEPT !.image = readImageFile(w, e.id, F)]
  ELSE e

\* POST /api/entries -> [w, status]
PostEntries(w, entry, F) ==
  LET data == readDataFile(w, F)
      hasData == entry.image.kind = "data"
      w1 == IF hasData
            THEN [w EXCEPT !.srvImages[entry.id] = Bytes(entry.image)]
            ELSE w
      stored == IF hasData THEN [entry EXCEPT !.image = PathRef] ELSE entry
  IN IF hasData /\ "imgWrite" \in F THEN [w |-> w, status |-> 500]
     ELSE IF "write" \in F THEN [w |-> w1, status |-> 500]
     ELSE [w |-> [w1 EXCEPT !.srvEntries = [data EXCEPT ![entry.id] = stored]],
           status |-> 200]

\* DELETE /api/entries/:id -> [w, status]
DeleteEntries(w, i, F) ==
  LET data == readDataFile(w, F)
      w1 == IF "unlink" \in F THEN w ELSE [w EXCEPT !.srvImages[i] = NoImage]
  IN IF data[i] = Absent THEN [w |-> w, status |-> 404]
     ELSE IF "write" \in F THEN [w |-> w1, status |-> 500]
     ELSE [w |-> [w1 EXCEPT !.srvEntries = [data EXCEPT ![i] = Absent]], status |-> 200]

\* DELETE /api/clear -> [w, status]
DeleteClear(w, F) ==
  LET w1 == IF "unlink" \in F THEN w ELSE [w EXCEPT !.srvImages = NoImages]
  IN IF "write" \in F THEN [w |-> w1, status |-> 500]
     ELSE [w |-> [w1 EXCEPT !.srvEntries = NoEntries], status |-> 200]

\* POST /api/config/:key -> [w, status]
PostConfig(w, k, v, F) ==
  IF "write" \in F THEN [w |-> w, status |-> 500]
  ELSE [w |-> [w EXCEPT !.srvConfig[k] = v], status |-> 200]

\* ------------------------------- trueLocalFile: TrueLocalStorageManager (client)
\* fetch rejects ("net") or the response is not ok: the method throws.
Tl_saveEntry(w, entry, F) ==
  IF ~w.tlReady \/ "net" \in F THEN Thrown(w)
  ELSE LET r == PostEntries(w, entry, F)
       IN IF r.status # 200 THEN Thrown(r.w) ELSE Done(r.w, "read" \in F)

Tl_getEntry(w, i, F) ==
  IF ~w.tlReady \/ "net" \in F THEN Thrown(w)
  ELSE LET data == readDataFile(w, F)
       IN IF data[i] = Absent
          THEN Outcome(w, TRUE, "read" \in F, Absent, NoCfg, <<>>)
          ELSE Outcome(w, TRUE,
                       data[i].image.kind = "path" /\ readImageFile(w, i, F) = NoImage,
                       entryWithImage(w, data[i], F), NoCfg, <<>>)

Tl_getAllEntries(w, F) ==
  IF ~w.tlReady \/ "net" \in F THEN Thrown(w)
  ELSE LET data == readDataFile(w, F)
       IN Outcome(w, TRUE,
                  "read" \in F \/ \E i \in IdsOf(data) :
                     data[i].image.kind = "path" /\ readImageFile(w, i, F) = NoImage,
                  Absent, NoCfg,
                  LET keys == KeysOf(w.keyOrder, data)
                  IN [n \in 1..Len(keys) |-> entryWithImage(w, data[keys[n]], F)])

Tl_deleteEntry(w, i, F) ==
  IF ~w.tlReady \/ "net" \in F THEN Thrown(w)
  ELSE LET r == DeleteEntries(w, i, F)
       IN IF r.status = 404 THEN Outcome(r.w, FALSE, "read" \in F, Absent, NoCfg, <<>>)
          ELSE IF r.status # 200 THEN Thrown(r.w)
          ELSE Done(r.w, "read" \in F \/ ("unlink" \in F /\ w.srvImages[i] # NoImage))

Tl_saveConfig(w, k, v, F) ==
  IF ~w.tlReady \/ "net" \in F THEN Thrown(w)
  ELSE LET r == PostConfig(w, k, v, F)
       IN IF r.status # 200 THEN Thrown(r.w) ELSE Done(r.w, FALSE)

\* GET /api/config/:key answers 404 for a missing or unreadable file; the client
\* returns null for 404 and for every error it catches.
Tl_getConfig(w, k, F) ==
  IF ~w.tlReady THEN Thrown(w)
  ELSE IF "net" \in F \/ "read" \in F THEN Outcome(w, TRUE, TRUE, Absent, NoCfg, <<>>)
  ELSE Outcome(w, TRUE, FALSE, Absent, w.srvConfig[k], <<>>)

Tl_clearAll(w, F) ==
  IF ~w.tlReady \/ "net" \in F THEN Thrown(w)
  ELSE LET r == DeleteClear(w, F)
       IN IF r.status # 200 THEN Thrown(r.w)
          ELSE Done(r.w, "unlink" \in F /\ w.srvImages # NoImages)

\* ===================================== localFile: LocalFileStorageManager
\* requestDirectoryAccess, by the environment's answer: the picker is missing or
\* refused (no handle), the images sub-directory cannot be made (directoryHandle is
\* already assigned, imagesDirectoryHandle is not), or both handles are obtained.
DirOutcomes == {"noPicker", "noImagesDir", "granted"}
requestDirectoryAccess(access) ==
  [dir |-> access \in {"noImagesDir", "granted"}, images |-> access = "granted",
   threw |-> access # "granted"]

\* initializeStorage -> [w, threw]: every failure is caught and degrades to
\* loadFromLocalStorage, which catches its own errors; the promise always resolves.
Lf_initializeStorage(w, access) ==
  LET h == requestDirectoryAccess(access)
      w1 == [w EXCEPT !.lfHandles = [dir |-> h.dir, images |-> h.images]]
  IN IF ~h.threw
     THEN [w |-> [w1 EXCEPT !.lfEntries = w.dirEntries], threw |-> FALSE]
     ELSE [w |-> IF w.lsStorage.present
                 THEN [w1 EXCEPT !.lfEntries = w.lsStorage.entries]
                 ELSE w1,
           threw |-> FALSE]

\* saveToLocalStorage -> [w, threw, failed]
Lf_saveToLocalStorage(w, F, failedSoFar) ==
  IF "dataQuota" \in F THEN [w |-> w, threw |-> TRUE, failed |-> TRUE]
  ELSE [w |-> [w EXCEPT !.lsStorage = [present |-> TRUE, entries |-> w.lfEntries,
                                        cfg |-> NoConfigs]],
        threw |-> FALSE, failed |-> failedSoFar]

\* saveDataToFile -> [w, threw, failed]: without a handle, or when writing
\* entries.json fails, the data goes to localStorage instead.
Lf_saveDataToFile(w, F) ==
  IF ~w.lfHandles.dir THEN Lf_saveToLocalStorage(w, F, FALSE)
  ELSE IF "write" \in F THEN Lf_saveToLocalStorage(w, F, TRUE)
  ELSE [w |-> [w EXCEPT !.dirEntries = w.lfEntries], threw |-> FALSE, failed |-> FALSE]

\* saveImageToFile -> [w, threw, failed, image]: the image field to store.
Lf_saveImageToFile(w, i, img, F) ==
  IF w.lfHandles.images /\ "imgWrite" \notin F
  THEN [w |-> [w EXCEPT !.dirImages[i] = Bytes(img)], threw |-> FALSE,
        failed |-> FALSE, image |-> PathRef]
  ELSE IF "quota" \in F
  THEN [w |-> w, threw |-> TRUE, failed |-> TRUE, image |-> img]
  ELSE [w |-> [w EXCEPT !.lsImages = LsSet(w.lsImages, ImageKey(i), img)],
        threw |-> FALSE, failed |-> w.lfHandles.images, image |-> img]

\* loadImageFromFile: undefined (NoImage) when neither medium has the image.
Lf_loadImageFromFile(w, i, F) ==
  IF w.lfHandles.images /\ "imgRead" \notin F /\ w.dirImages[i] # NoImage
  THEN JpegURI(w.dirImages[i])
  ELSE LsGet(w.lsImages, ImageKey(i))

Lf_withImage(w, e, F) ==
  IF e.image.kind = "path" /\ Lf_loadImageFromFile(w, e.id, F) # NoImage
  THEN [e EXCEPT !.image = Lf_loadImageFromFile(w, e.id, F)]
  ELSE e

Lf_readFailed(w, e, F) ==
  e.image.kind = "path" /\ w.lfHandles.images
    /\ ("imgRead" \in F \/ w.dirImages[e.id] = NoImage)

Lf_saveEntry(w, entry, F) ==
  LET hasData == entry.image.kind = "data"
      img == IF hasData THEN Lf_saveImageToFile(w, entry.id, entry.image, F)
             ELSE [w |-> w, threw |-> FALSE, failed |-> FALSE, image |-> entry.image]
      stored == [entry EXCEPT !.image = img.image]
      save == Lf_saveDataToFile([img.w EXCEPT !.lfEntries[entry.id] = stored], F)
  IN IF img.threw THEN Thrown(w)
     ELSE IF save.threw THEN Thrown(save.w)
     ELSE Done(save.w, img.failed \/ save.failed)

Lf_getEntry(w, i, F) ==
  IF w.lfEntries[i] = Absent THEN Outcome(w, TRUE, FALSE, Absent, NoCfg, <<>>)
  ELSE Outcome(w, TRUE, Lf_readFailed(w, w.lfEntries[i], F),
               Lf_withImage(w, w.lfEntries[i], F), NoCfg, <<>>)

Lf_getAllEntries(w, F) ==
  Outcome(w, TRUE, \E i \in IdsOf(w.lfEntries) : Lf_readFailed(w, w.lfEntries[i], F),
          Absent, NoCfg,
          LET keys == KeysOf(w.keyOrder, w.lfEntries)
          IN [n \in 1..Len(keys) |-> Lf_withImage(w, w.lfEntries[keys[n]], F)])

Lf_deleteEntry(w, i, F) ==
  LET e == w.lfEntries[i]
      inDir == w.lfHandles.images /\ e.image.kind = "path"
      w1 == IF e = Absent \/ e.image = NoImage THEN w
            ELSE IF inDir
            THEN (IF "unlink" \in F \/ w.dirImages[i] = NoImage THEN w
                  ELSE [w EXCEPT !.dirImages[i] = NoImage])
            ELSE [w EXCEPT !.lsImages = LsRemove(w.lsImages, ImageKey(i))]
      save == Lf_saveDataToFile([w1 EXCEPT !.lfEntries[i] = Absent], F)
  IN IF save.threw THEN Thrown(save.w)
     ELSE Done(save.w, save.failed \/ (e # Absent /\ inDir /\ "unlink" \in F))

\* saveConfig only logs; getConfig only logs and returns null.
Lf_saveConfig(w, k, v, F) == Done(w, FALSE)
Lf_getConfig(w, k, F) == Outcome(w, TRUE, FALSE, Absent, NoCfg, <<>>)

\* clearAll catches every error of the clean-up and of the final save.
Lf_clearAll(w, F) ==
  LET w1 == [w EXCEPT !.lfEntries = NoEntries]
      w2 == IF w.lfHandles.images
            THEN (IF "unlink" \in F THEN w1 ELSE [w1 EXCEPT !.dirImages = NoImages])
            ELSE [w1 EXCEPT !.lsImages = LsRemovePrefix(w.lsImages, "image_")]
      save == Lf_saveDataToFile(w2, F)
  IN Done(save.w, save.failed \/ (w.lfHandles.images /\ "unlink" \in F))

\* ========================================= fileSystem: FileStorageManager
\* cleanupOldImages / cleanupStorage({removeOldImages, maxImages}).
\* imageKeys.slice(0, imageKeys.length - maxImages) is removed.
cleanupStorage(w, maxImages, F) ==
  Only({IF Len(imageKeys) > maxImages
        THEN Only({[w EXCEPT !.lsImages = SelectSeq(@, LAMBDA p : p[1] \notin keysToDelete)] :
               keysToDelete \in {{imageKeys[n][1] : n \in 1..(Len(imageKeys) - maxImages)}}})
        ELSE w :
          imageKeys \in {SelectSeq(forIn(w.lsImages, F), LAMBDA p : p[1][1] = "image_")}})
cleanupOldImages(w, F) == cleanupStorage(w, KeepImages, F)

\* saveImageToFile -> [w, threw, hung]: quality 0.7 first, 0.4 when setItem throws;
\* hung when compressImage's promise never resolves (the image never loads).
Fs_saveImageToFile(w, i, img, F, lowSpace) ==
  LET w0 == IF lowSpace THEN cleanupOldImages(w, F) ELSE w
  IN IF "neverLoads" \in F
     THEN [w |-> w0, threw |-> FALSE, hung |-> TRUE]
     ELSE IF "quota" \notin F
     THEN [w |-> [w0 EXCEPT !.lsImages =
                     LsSet(w0.lsImages, ImageKey(i), compressImage(img, "q70"))],
           threw |-> FALSE, hung |-> FALSE]
     ELSE IF "quotaRetry" \notin F
     THEN [w |-> [w0 EXCEPT !.lsImages =
                     LsSet(w0.lsImages, ImageKey(i), compressImage(img, "q40"))],
           threw |-> FALSE, hung |-> FALSE]
     ELSE [w |-> w0, threw |-> TRUE, hung |-> FALSE]

\* saveDataToFile -> [w, threw]
Fs_saveDataToFile(w, F) ==
  IF "dataQuota" \in F THEN [w |-> w, threw |-> TRUE]
  ELSE [w |-> [w EXCEPT !.lsStorage = [present |-> TRUE, entries |-> w.fsEntries,
                                        cfg |-> w.fsConfig]],
        threw |-> FALSE]

\* saveEntry: preventive clean-up above 80% usage, one retry of the image after
\* cleanupStorage, then the entry data.
Fs_saveEntry_keepsGoing(w, entry, F) ==
  LET usageHigh == "usageHigh" \in F
      freed == "freed" \in F
      w0 == IF usageHigh THEN cleanupOldImages(w, F) ELSE w
      hasImage == entry.image # NoImage
      first == Fs_saveImageToFile(w0, entry.id, entry.image, F, usageHigh)
      w1 == cleanupStorage(first.w, RetryKeepImages, F)
      retry == Fs_saveImageToFile(w1, entry.id, entry.image,
                                  IF freed /\ w1.lsImages # first.w.lsImages
                                  THEN F \cap {"hashOrder"} ELSE F,
                                  usageHigh)
      img == IF ~hasImage THEN [w |-> w0, threw |-> FALSE, hung |-> FALSE]
             ELSE IF ~first.threw THEN first ELSE retry
      stored == [entry EXCEPT !.image = IF hasImage THEN KeyRef ELSE NoImage]
      save == Fs_saveDataToFile([img.w EXCEPT !.fsEntries[entry.id] = stored], F)
  IN IF img.hung THEN Pending(img.w)
     ELSE IF img.threw THEN Done(img.w, FALSE)
     ELSE IF save.threw THEN Thrown(save.w)
     ELSE Done(save.w, FALSE)
Fs_saveEntry(w, entry, F) ==
  LET usageHigh == "usageHigh" \in F
      freed == "freed" \in F
      w0 == IF usageHigh THEN cleanupOldImages(w, F) ELSE w
      hasImage == entry.image # NoImage
      first == Fs_saveImageToFile(w0, entry.id, entry.image, F, usageHigh)
      w1 == cleanupStorage(first.w, RetryKeepImages, F)
      retry == Fs_saveImageToFile(w1, entry.id, entry.image,
                                  IF freed /\ w1.lsImages # first.w.lsImages
                                  THEN F \cap {"hashOrder"} ELSE F,
                                  usageHigh)
      img == IF ~hasImage THEN [w |-> w0, threw |-> FALSE, hung |-> FALSE]
             ELSE IF ~first.threw THEN first ELSE retry
      stored == [entry EXCEPT !.image = IF hasImage THEN KeyRef ELSE NoImage]
      save == Fs_saveDataToFile([img.w EXCEPT !.fsEntries[entry.id] = stored], F)
  IN IF img.hung THEN Pending(img.w)
     ELSE IF img.threw THEN Thrown(img.w)
     ELSE IF save.threw THEN Thrown(save.w)
     ELSE Done(save.w, FALSE)

Fs_withImage(w, e) ==
  IF e.image.kind = "key" THEN [e EXCEPT !.image = LsGet(w.lsImages, ImageKey(e.id))]
  ELSE e

Fs_getEntry(w, i, F) ==
  IF w.fsEntries[i] = Absent THEN Outcome(w, TRUE, FALSE, Absent, NoCfg, <<>>)
  ELSE Outcome(w, TRUE, FALSE, Fs_withImage(w, w.fsEntries[i]), NoCfg, <<>>)

Fs_getAllEntries(w, F) ==
  Outcome(w, TRUE, FALSE, Absent, NoCfg,
          LET keys == KeysOf(w.keyOrder, w.fsEntries)
          IN SortDesc([n \in 1..Len(keys) |-> Fs_withImage(w, w.fsEntries[keys[n]])]))

\* deleteEntry removes the key `image-${id}`; images are saved as `image_${id}`.
Fs_deleteEntry(w, i, F) ==
  LET w1 == IF w.fsEntries[i] # Absent /\ w.fsEntries[i].image.kind = "key"
            THEN [w EXCEPT !.lsImages = LsRemove(w.lsImages, <<"image-", i>>)]
            ELSE w
      save == Fs_saveDataToFile([w1 EXCEPT !.fsEntries[i] = Absent], F)
  IN IF save.threw THEN Thrown(save.w) ELSE Done(save.w, FALSE)

Fs_saveConfig(w, k, v, F) ==
  LET save == Fs_saveDataToFile([w EXCEPT !.fsConfig[k] = v], F)
  IN IF save.threw THEN Thrown(save.w) ELSE Done(save.w, FALSE)

Fs_getConfig(w, k, F) == Outcome(w, TRUE, FALSE, Absent, w.fsConfig[k], <<>>)

\* clearAll removes `image-${imagePath.split('/').pop().replace('.jpg','')}`,
\* that is `image-image_<id>`, for every entry with an image path.
Fs_clearAll(w, F) ==
  LET gone == {<<"image-image_", i>> :
                 i \in {j \in IdsOf(w.fsEntries) : w.fsEntries[j].image.kind = "key"}}
  IN Done([w EXCEPT !.lsImages = SelectSeq(w.lsImages, LAMBDA p : p[1] \notin gone),
                    !.fsEntries = NoEntries,
                    !.fsConfig = [k \in Keys |-> EmptyCfg],
                    !.lsStorage = NoStorage], FALSE)

\* ============================================ indexedDB: DatabaseManager
\* saveEntry: the text row is put and awaited; the image save is started and
\* not awaited (its rejection is caught and logged).
Db_saveEntry(w, entry, F) ==
  IF "write" \in F THEN Thrown(w)
  ELSE Done([w EXCEPT !.idbEntries[entry.id] = WithoutImage(entry),
                      !.idbPending = IF entry.image # NoImage
                                     THEN w.idbPending \cup {<<entry.id, entry.image>>}
                                     ELSE w.idbPending], FALSE)

\* A failed image write that takes the text row back with it.
Db_saveImageDataAsync_rollback(w, task, succeeds) ==
  IF succeeds
  THEN [w EXCEPT !.idbImages[task[1]] = task[2], !.idbPending = w.idbPending \ {task}]
  ELSE [w EXCEPT !.idbLog = w.idbLog \cup {task[1]}, !.idbPending = w.idbPending \ {task},
                 !.idbEntries[task[1]] = Absent]
\* saveImageDataAsync settles: the image row is put, or the failure is logged.
Db_saveImageDataAsync(w, task, succeeds) ==
  IF succeeds
  THEN [w EXCEPT !.idbImages[task[1]] = task[2], !.idbPending = w.idbPending \ {task}]
  ELSE [w EXCEPT !.idbLog = w.idbLog \cup {task[1]}, !.idbPending = w.idbPending \ {task}]

Db_row(w, i, thumb) ==
  [w.idbEntries[i] EXCEPT !.image =
     IF w.idbImages[i] = NoImage THEN NoImage
     ELSE IF thumb THEN generateThumbnail(w.idbImages[i]) ELSE w.idbImages[i]]

\* getEntry returns the original image; a failed request is caught: null.
Db_getEntry(w, i, F) ==
  IF "read" \in F THEN Outcome(w, TRUE, TRUE, Absent, NoCfg, <<>>)
  ELSE IF w.idbEntries[i] = Absent THEN Outcome(w, TRUE, FALSE, Absent, NoCfg, <<>>)
  ELSE Outcome(w, TRUE, FALSE, Db_row(w, i, FALSE), NoCfg, <<>>)

\* getAllEntries returns thumbnails; a failed request is caught: [].
Db_getAllEntries(w, F) ==
  IF "read" \in F THEN Outcome(w, TRUE, TRUE, Absent, NoCfg, <<>>)
  ELSE Outcome(w, TRUE, FALSE, Absent, NoCfg,
               LET keys == Ascending(IdsOf(w.idbEntries))
               IN SortDesc([n \in 1..Len(keys) |-> Db_row(w, keys[n], TRUE)]))

Db_deleteEntry(w, i, F) ==
  IF "write" \in F THEN Thrown(w)
  ELSE Done([w EXCEPT !.idbEntries[i] = Absent, !.idbImages[i] = NoImage], FALSE)

Db_saveConfig(w, k, v, F) ==
  IF "write" \in F THEN Thrown(w) ELSE Done([w EXCEPT !.idbConfigs[k] = v], FALSE)

Db_getConfig(w, k, F) ==
  IF "read" \in F THEN Outcome(w, TRUE, TRUE, Absent, NoCfg, <<>>)
  ELSE Outcome(w, TRUE, FALSE, Absent, w.idbConfigs[k], <<>>)

Db_clearAll(w, F) ==
  IF "write" \in F THEN Thrown(w)
  ELSE Done([w EXCEPT !.idbEntries = [i \in DOMAIN w.idbEntries |-> Absent],
                      !.idbImages = [i \in DOMAIN w.idbImages |-> NoImage],
                      !.idbConfigs = [k \in DOMAIN w.idbConfigs |->
                                        IF k \in Keys THEN NoCfg ELSE NoStatus]],
            FALSE)

\* ======================================================= StorageAdapter
\* The entries object (or store) of the backend of mode m.
RawEntries(m, w) ==
  CASE m = "trueLocalFile" -> w.srvEntries
    [] m = "localFile" -> w.lfEntries
    [] m = "fileSystem" -> w.fsEntries
    [] OTHER -> w.idbEntries
\* The outcome r of a call, with the key order its assignments and deletes leave.
Keyed(m, r) ==
  [r EXCEPT !.w.keyOrder = KeyOrderAfter(r.w.keyOrder, RawEntries(m, r.w))]

\* The backend each mode dispatches to.
Backend_saveEntry(m, w, entry, F) ==
  Keyed(m, CASE m = "trueLocalFile" -> Tl_saveEntry(w, entry, F)
             [] m = "localFile" -> Lf_saveEntry(w, entry, F)
             [] m = "fileSystem" -> Fs_saveEntry(w, entry, F)
             [] OTHER -> Db_saveEntry(w, entry, F))
Backend_getEntry(m, w, i, F) ==
  CASE m = "trueLocalFile" -> Tl_getEntry(w, i, F)
    [] m = "localFile" -> Lf_getEntry(w, i, F)
    [] m = "fileSystem" -> Fs_getEntry(w, i, F)
    [] OTHER -> Db_getEntry(w, i, F)
Backend_getAllEntries(m, w, F) ==
  CASE m = "trueLocalFile" -> Tl_getAllEntries(w, F)
    [] m = "localFile" -> Lf_getAllEntries(w, F)
    [] m = "fileSystem" -> Fs_getAllEntries(w, F)
    [] OTHER -> Db_getAllEntries(w, F)
Backend_deleteEntry(m, w, i, F) ==
  Keyed(m, CASE m = "trueLocalFile" -> Tl_deleteEntry(w, i, F)
             [] m = "localFile" -> Lf_deleteEntry(w, i, F)
             [] m = "fileSystem" -> Fs_deleteEntry(w, i, F)
             [] OTHER -> Db_deleteEntry(w, i, F))
Backend_saveConfig(m, w, k, v, F) ==
  CASE m = "trueLocalFile" -> Tl_saveConfig(w, k, v, F)
    [] m = "localFile" -> Lf_saveConfig(w, k, v, F)
    [] m = "fileSystem" -> Fs_saveConfig(w, k, v, F)
    [] OTHER -> Db_saveConfig(w, k, v, F)
Backend_getConfig(m, w, k, F) ==
  CASE m = "trueLocalFile" -> Tl_getConfig(w, k, F)
    [] m = "localFile" -> Lf_getConfig(w, k, F)
    [] m = "fileSystem" -> Fs_getConfig(w, k, F)
    [] OTHER -> Db_getConfig(w, k, F)
Backend_clearAll(m, w, F) ==
  Keyed(m, CASE m = "trueLocalFile" -> Tl_clearAll(w, F)
             [] m = "localFile" -> Lf_clearAll(w, F)
             [] m = "fileSystem" -> Fs_clearAll(w, F)
             [] OTHER -> Db_clearAll(w, F))

\* catch { return null } / catch { return [] }: the read resolves with nothing.
Swallowed(r) == IF r.ok THEN r ELSE Outcome(r.w, TRUE, r.failed, Absent, NoCfg, <<>>)

\* The adapter's methods after ensureInitialized: saveEntry, deleteEntry,
\* saveConfig and clearAll rethrow; getEntry, getAllEntries and getConfig do not.
Adapter_saveEntry(m, w, entry, F) ==
  Backend_saveEntry(m, w, entry, F)
Adapter_getEntry(m, w, i, F) == Swallowed(Backend_getEntry(m, w, i, F))
Adapter_getAllEntries(m, w, F) == Swallowed(Backend_getAllEntries(m, w, F))
\* getAllEntriesForExport: each file backend's export is its getAllEntries; in
\* indexedDB mode the adapter calls dbManager.getAllEntries().
Adapter_getAllEntriesForExport(m, w, F) ==
  Swallowed(CASE m = "trueLocalFile" -> Tl_getAllEntries(w, F)
              [] m = "localFile" -> Lf_getAllEntries(w, F)
              [] m = "fileSystem" -> Fs_getAllEntries(w, F)
              [] OTHER -> Db_getAllEntries(w, F))
Adapter_deleteEntry(m, w, i, F) == Backend_deleteEntry(m, w, i, F)
Adapter_saveConfig(m, w, k, v, F) == Backend_saveConfig(m, w, k, v, F)
Adapter_getConfig(m, w, k, F) == Swallowed(Backend_getConfig(m, w, k, F))
Adapter_clearAll(m, w, F) == Backend_clearAll(m, w, F)

\* What getEntry(i) returns when nothing fails during the read.
Stored(i) == Adapter_getEntry(mode, World, i, {}).entry
StoredIds == {i \in Ids : Stored(i) # Absent}
StoredConfig(k) == Adapter_getConfig(mode, World, k, {}).cfg

\* A record as the application holds it: the DataEntry with its version and history.
NoRecord == [id |-> 0, query |-> "-", createdAt |-> 0, updatedAt |-> 0,
             version |-> 0, history |-> <<>>]
\* A BackupData: a missing version or timestamp is "", a missing entries array
\* has hasEntries FALSE; a record of the array lacking its id has id 0.
BACKUP_VERSION == "1.0.0"
NoBackupData == [version |-> "", timestamp |-> "", hasEntries |-> FALSE, entries |-> <<>>,
                 tagConfigs |-> NoCfg, exportConfig |-> NoCfg,
                 metadata |-> [entryCount |-> 0, storageMode |-> "-"]]
\* No safety backup is stashed.
NoBackup == [present |-> FALSE, data |-> NoBackupData]

\* No POST /api/entries is being handled.
NoPost == [pc |-> "idle", entry |-> Absent, data |-> NoEntries]

NoCall == [op |-> "none", id |-> 0, key |-> "-", arg |-> Absent, val |-> NoCfg,
           faults |-> {}, ok |-> TRUE, failed |-> FALSE, entry |-> Absent, cfg |-> NoCfg, list |-> <<>>,
           steps |-> <<>>, recovery |-> <<>>, attempts |-> 0, settled |-> TRUE,
              backup |-> NoBackupData,
              overwrite |-> FALSE]

\* initializeStorage after trueLocalStorageManager.initialize() returned false:
\* the first of localFile, fileSystem, indexedDB whose initialization does not throw.
FallbackMode(lfThrew, fsThrew) ==
  IF ~lfThrew THEN "localFile" ELSE IF ~fsThrew THEN "fileSystem" ELSE "indexedDB"

\* ensureInitialized: awaits initPromise, which initializeStorage has settled.
ensureInitialized == initPc = "done"

Apply(w) ==
  /\ tlReady' = w.tlReady /\ srvEntries' = w.srvEntries /\ srvImages' = w.srvImages
  /\ srvConfig' = w.srvConfig /\ lfHandles' = w.lfHandles /\ lfEntries' = w.lfEntries
  /\ dirEntries' = w.dirEntries /\ dirImages' = w.dirImages
  /\ lsStorage' = w.lsStorage /\ lsImages' = w.lsImages
  /\ fsEntries' = w.fsEntries /\ fsConfig' = w.fsConfig
  /\ idbEntries' = w.idbEntries /\ idbImages' = w.idbImages
  /\ idbConfigs' = w.idbConfigs /\ idbPending' = w.idbPending /\ idbLog' = w.idbLog
  /\ keyOrder' = w.keyOrder

\* A hot failover: a failed call moves the adapter on to IndexedDB.
Call_failover(op, i, k, arg, val, F, r) ==
  /\ Apply(r.w)
  /\ last' = [op |-> op, id |-> i, key |-> k, arg |-> arg, val |-> val,
              faults |-> F, ok |-> r.ok, failed |-> r.failed, entry |-> r.entry, cfg |-> r.cfg, list |-> r.list,
              steps |-> <<>>, recovery |-> <<>>, attempts |-> 0, settled |-> r.settled,
              backup |-> NoBackupData,
              overwrite |-> FALSE]
  /\ ops' = ops + 1
  /\ observed' = observed \cup {mode}
  /\ mode' = IF r.ok THEN mode ELSE "indexedDB"
  /\ UNCHANGED <<envVars, initialized, initPc, appVars>>
\* One call of an adapter method on the committed mode and what its caller gets.
Call(op, i, k, arg, val, F, r) ==
  /\ Apply(r.w)
  /\ last' = [op |-> op, id |-> i, key |-> k, arg |-> arg, val |-> val,
              faults |-> F, ok |-> r.ok, failed |-> r.failed, entry |-> r.entry, cfg |-> r.cfg, list |-> r.list,
              steps |-> <<>>, recovery |-> <<>>, attempts |-> 0, settled |-> r.settled,
              backup |-> NoBackupData,
              overwrite |-> FALSE]
  /\ ops' = ops + 1
  /\ observed' = observed \cup {mode}
  /\ UNCHANGED <<envVars, adapterVars, appVars>>

\* ------------------------------------------------------------- actions
Init ==
  /\ serverUp \in BOOLEAN
  /\ dirAccess = "unasked"
  /\ mode = "localFile" /\ initialized = FALSE /\ initPc = "trueLocal"
  /\ observed = {}
  /\ tlReady = FALSE
  /\ srvEntries = NoEntries /\ srvImages = NoImages /\ srvConfig = NoConfigs
  /\ lfHandles = [dir |-> FALSE, images |-> FALSE] /\ lfEntries = NoEntries
  /\ dirEntries = NoEntries /\ dirImages = NoImages
  /\ lsStorage = NoStorage /\ lsImages = <<>>
  /\ fsEntries = NoEntries /\ fsConfig = [k \in Keys |-> EmptyCfg]
  /\ idbEntries = NoEntries /\ idbImages = NoImages /\ idbConfigs = NoConfigs
  /\ idbPending = {} /\ idbLog = {} /\ keyOrder = <<>>
  /\ last = NoCall /\ ops = 0
  /\ posts = [i \in Ids |-> NoPost] /\ dataEntries = [i \in Ids |-> NoRecord]
  /\ safetyBackup = NoBackup
  /\ mig = NoMigration
  /\ lz = NoItem

\* initializeStorage up to `await trueLocalStorageManager.initialize()`, which
\* returns whether GET /api/stats answered ok and never throws.
InitTrueLocal_mayGiveUp ==
  /\ initPc = "trueLocal"
  /\ tlReady' = serverUp
  /\ \E answered \in {serverUp, FALSE} : IF answered
     THEN mode' = "trueLocalFile" /\ initialized' = TRUE /\ initPc' = "done"
     ELSE mode' = mode /\ initialized' = initialized /\ initPc' = "fallback"
  /\ UNCHANGED <<envVars, observed, srvEntries, srvImages, srvConfig, lfHandles,
                 lfEntries, dirEntries, dirImages, lsStorage, lsImages, fsEntries,
                 fsConfig, idbEntries, idbImages, idbConfigs, idbPending, idbLog,
                 keyOrder, last, ops, appVars>>
InitTrueLocal ==
  /\ initPc = "trueLocal"
  /\ tlReady' = serverUp
  /\ IF serverUp
     THEN mode' = "trueLocalFile" /\ initialized' = TRUE /\ initPc' = "done"
     ELSE mode' = mode /\ initialized' = initialized /\ initPc' = "fallback"
  /\ UNCHANGED <<envVars, observed, srvEntries, srvImages, srvConfig, lfHandles,
                 lfEntries, dirEntries, dirImages, lsStorage, lsImages, fsEntries,
                 fsConfig, idbEntries, idbImages, idbConfigs, idbPending, idbLog,
                 keyOrder, last, ops, appVars>>

\* initializeStorage from `await localFileStorageManager.initializeStorage()` on.
InitFallback ==
  /\ initPc = "fallback"
  /\ \E access \in DirOutcomes :
       LET r == Lf_initializeStorage(World, access)
       IN /\ dirAccess' = access
          /\ Apply(r.w)
          /\ mode' = FallbackMode(r.threw, FALSE)
  /\ initialized' = TRUE
  /\ initPc' = "done"
  /\ UNCHANGED <<serverUp, observed, last, ops, appVars>>

\* getCurrentMode(): synchronous, returns this.mode as it stands.
GetCurrentMode ==
  /\ mode \notin observed
  /\ observed' = observed \cup {mode}
  /\ UNCHANGED <<envVars, adapterVars, backendVars, last, ops, appVars>>

SaveEntry ==
  /\ ensureInitialized /\ ops < MaxOps
  /\ \E entry \in Entries, F \in FaultsOf(mode, "saveEntry") :
       /\ entry.updatedAt = ops + 1
       /\ entry.image # NoImage => Cardinality(idbPending) < MaxPending
       /\ Call("saveEntry", entry.id, "-", entry, NoCfg, F,
               Adapter_saveEntry(mode, World, entry, F))

GetEntry ==
  /\ ensureInitialized /\ ops < MaxOps
  /\ \E i \in Ids, F \in FaultsOf(mode, "getEntry") :
       Call("getEntry", i, "-", Absent, NoCfg, F, Adapter_getEntry(mode, World, i, F))

GetAllEntries ==
  /\ ensureInitialized /\ ops < MaxOps
  /\ \E F \in FaultsOf(mode, "getAllEntries") :
       Call("getAllEntries", 0, "-", Absent, NoCfg, F, Adapter_getAllEntries(mode, World, F))

GetAllEntriesForExport ==
  /\ ensureInitialized /\ ops < MaxOps
  /\ \E F \in FaultsOf(mode, "getAllEntries") :
       Call("getAllEntriesForExport", 0, "-", Absent, NoCfg, F,
            Adapter_getAllEntriesForExport(mode, World, F))

DeleteEntry ==
  /\ ensureInitialized /\ ops < MaxOps
  /\ \E i \in Ids, F \in FaultsOf(mode, "deleteEntry") :
       Call("deleteEntry", i, "-", Absent, NoCfg, F, Adapter_deleteEntry(mode, World, i, F))

SaveConfig ==
  /\ ensureInitialized /\ ops < MaxOps
  /\ \E k \in Keys, v \in CfgVals, F \in FaultsOf(mode, "saveConfig") :
       Call("saveConfig", 0, k, Absent, v, F, Adapter_saveConfig(mode, World, k, v, F))

GetConfig ==
  /\ ensureInitialized /\ ops < MaxOps
  /\ \E k \in Keys, F \in FaultsOf(mode, "getConfig") :
       Call("getConfig", 0, k, Absent, NoCfg, F, Adapter_getConfig(mode, World, k, F))

ClearAll ==
  /\ ensureInitialized /\ ops < MaxOps
  /\ \E F \in FaultsOf(mode, "clearAll") :
       Call("clearAll", 0, "-", Absent, NoCfg, F, Adapter_clearAll(mode, World, F))

\* A background saveImageDataAsync settles, with either outcome.
ImageSaveSettles ==
  /\ \E task \in idbPending, succeeds \in BOOLEAN :
       Apply(Db_saveImageDataAsync(World, task, succeeds))
  /\ UNCHANGED <<envVars, adapterVars, observed, last, ops, appVars>>

Calls ==
  \/ SaveEntry \/ GetEntry \/ GetAllEntries \/ GetAllEntriesForExport \/ DeleteEntry
  \/ SaveConfig \/ GetConfig \/ ClearAll

\* The application: the adapter is constructed, initializes, and is called.
Next == InitTrueLocal \/ InitFallback \/ GetCurrentMode \/ Calls
Spec == Init /\ [][Next]_vars

\* Each backend behind its committed mode, called as the adapter dispatches.
InitBackend ==
  /\ serverUp \in BOOLEAN
  /\ dirAccess \in DirOutcomes \cup {"unasked"}
  /\ mode \in StorageModes
  /\ serverUp = (mode = "trueLocalFile")
  /\ (mode = "localFile") = (dirAccess \in DirOutcomes)
  /\ initialized = TRUE /\ initPc = "done"
  /\ observed = {}
  /\ tlReady = serverUp
  /\ srvEntries = NoEntries /\ srvImages = NoImages /\ srvConfig = NoConfigs
  /\ lfHandles = IF mode = "localFile"
                 THEN [dir |-> requestDirectoryAccess(dirAccess).dir,
                       images |-> requestDirectoryAccess(dirAccess).images]
                 ELSE [dir |-> FALSE, images |-> FALSE]
  /\ lfEntries = NoEntries
  /\ dirEntries = NoEntries /\ dirImages = NoImages
  /\ lsStorage = NoStorage /\ lsImages = <<>>
  /\ fsEntries = NoEntries /\ fsConfig = [k \in Keys |-> EmptyCfg]
  /\ idbEntries = NoEntries /\ idbImages = NoImages /\ idbConfigs = NoConfigs
  /\ idbPending = {} /\ idbLog = {} /\ keyOrder = <<>>
  /\ last = NoCall /\ ops = 0
  /\ posts = [i \in Ids |-> NoPost] /\ dataEntries = [i \in Ids |-> NoRecord]
  /\ safetyBackup = NoBackup
  /\ mig = NoMigration
  /\ lz = NoItem

NextBackend == Calls \/ ImageSaveSettles
BackendSpec == InitBackend /\ [][NextBackend]_vars

\* ------------------------------------------------ concurrent POST /api/entries
\* The handler of POST /api/entries runs up to each await: readDataFile, then
\* saveImageFile when the record carries image data, then writeDataFile. Handlers
\* of different requests interleave at these awaits.
PostRead ==
  \E entry \in Entries :
    /\ posts[entry.id].pc = "idle"
    /\ posts' = [posts EXCEPT ![entry.id] =
                   [pc |-> "read", entry |-> entry, data |-> readDataFile(World, {})]]
    /\ UNCHANGED <<envVars, adapterVars, backendVars, observed, last, ops,
                   dataEntries, safetyBackup, mig, lz>>

PostSaveImage ==
  \E i \in Ids :
    /\ posts[i].pc = "read" /\ posts[i].entry.image.kind = "data"
    /\ srvImages' = [srvImages EXCEPT ![i] = Bytes(posts[i].entry.image)]
    /\ posts' = [posts EXCEPT ![i].pc = "image",
                              ![i].entry.image = PathRef]
    /\ UNCHANGED <<envVars, adapterVars, observed, tlReady, srvEntries, srvConfig,
                   lfHandles, lfEntries, dirEntries, dirImages, lsStorage, lsImages,
                   fsEntries, fsConfig, idbEntries, idbImages, idbConfigs, idbPending,
                   idbLog, keyOrder, last, ops, dataEntries, safetyBackup, mig, lz>>

PostWrite ==
  \E i \in Ids :
    /\ \/ posts[i].pc = "image"
       \/ posts[i].pc = "read" /\ posts[i].entry.image.kind # "data"
    /\ srvEntries' = [posts[i].data EXCEPT ![i] = posts[i].entry]
    /\ keyOrder' = KeyOrderAfter(keyOrder, srvEntries')
    /\ posts' = [posts EXCEPT ![i].pc = "done"]
    /\ UNCHANGED <<envVars, adapterVars, observed, tlReady, srvImages, srvConfig,
                   lfHandles, lfEntries, dirEntries, dirImages, lsStorage, lsImages,
                   fsEntries, fsConfig, idbEntries, idbImages, idbConfigs, idbPending,
                   idbLog, last, ops, dataEntries, safetyBackup, mig, lz>>

\* The file server taking saveEntry requests of several callers at once.
InitRace == InitBackend /\ mode = "trueLocalFile"
RaceSpec == InitRace /\ [][PostRead \/ PostSaveImage \/ PostWrite]_vars

\* =================================================================== claims
InitDone == initPc = "done"
Called == ops' = ops + 1

\* ------------------------------------------------------- App: versioned saves
\* The record handleSaveEntry builds: for an id already in appState.dataEntries the
\* version after oldEntry's and oldEntry appended to its history; otherwise
\* version 1 and an empty history.
savedEntry_sameVersion(entry, oldEntry, now) ==
  IF oldEntry # NoRecord
  THEN [entry EXCEPT !.updatedAt = now,
                     !.version = oldEntry.version,
                     !.history = Append(oldEntry.history,
                                        [version |-> oldEntry.version, data |-> oldEntry,
                                         timestamp |-> now, action |-> "update"])]
  ELSE [entry EXCEPT !.createdAt = now, !.updatedAt = now,
                     !.version = 1, !.history = <<>>]
savedEntry(entry, oldEntry, now) ==
  IF oldEntry # NoRecord
  THEN [entry EXCEPT !.updatedAt = now,
                     !.version = oldEntry.version + 1,
                     !.history = Append(oldEntry.history,
                                        [version |-> oldEntry.version, data |-> oldEntry,
                                         timestamp |-> now, action |-> "update"])]
  ELSE [entry EXCEPT !.createdAt = now, !.updatedAt = now,
                     !.version = 1, !.history = <<>>]

\* handleSaveEntry(entry): an empty query is refused; the record is saved through
\* the adapter, and appState.dataEntries is updated only when the save succeeded.
handleSaveEntry(entry) ==
  /\ entry.query # ""
  /\ ops <= MaxEdits
  /\ LET saved == savedEntry(entry, dataEntries[entry.id], ops + 1)
     IN \E F \in FaultsOf(mode, "saveEntry") :
          LET r == Adapter_saveEntry(mode, World,
                                     [id |-> saved.id, query |-> saved.query,
                                      image |-> NoImage, updatedAt |-> saved.updatedAt], F)
          IN /\ Apply(r.w)
             /\ last' = [NoCall EXCEPT !.op = "handleSaveEntry", !.id = saved.id,
                                       !.ok = r.ok]
             /\ dataEntries' = IF r.ok THEN [dataEntries EXCEPT ![saved.id] = saved]
                                ELSE dataEntries
  /\ ops' = ops + 1
  /\ observed' = observed \cup {mode}
  /\ UNCHANGED <<envVars, adapterVars, posts, safetyBackup, mig, lz>>

\* DataEntryPage.handleSubmit: a new record under a fresh id.
handleSubmit ==
  \E i \in Ids, q \in Texts \cup {""} :
    /\ dataEntries[i] = NoRecord
    /\ handleSaveEntry([id |-> i, query |-> q, createdAt |-> ops + 1,
                        updatedAt |-> ops + 1, version |-> 1, history |-> <<>>])

\* DataEditPage.handleSaveEdit: the selected record with the edited fields.
handleSaveEdit ==
  \E i \in Ids, q \in Texts \cup {""} :
    /\ dataEntries[i] # NoRecord
    /\ handleSaveEntry([dataEntries[i] EXCEPT !.query = q, !.updatedAt = ops + 1,
                                              !.version = dataEntries[i].version + 1])

AppSpec == InitBackend /\ [][handleSubmit \/ handleSaveEdit]_vars

\* -------------------------------------------------------------- BackupManager
\* The records a backup file may carry: any id or none (0), any query or none.
BackupEntries == [id : 0..NumIds, query : {"Q1", ""}, image : {NoImage}, updatedAt : {1}]
RECURSIVE SeqsUpTo(_, _)
SeqsUpTo(S, n) ==
  IF n = 0 THEN {<<>>}
  ELSE SeqsUpTo(S, n - 1)
         \cup {Append(q, e) : q \in {p \in SeqsUpTo(S, n - 1) : Len(p) = n - 1}, e \in S}
\* The backups handed to validateBackup: every field present or missing, the
\* version and the metadata's entryCount right or wrong.
BackupInputs ==
  {[version |-> v, timestamp |-> t, hasEntries |-> h, entries |-> es,
    tagConfigs |-> tc, exportConfig |-> ec,
    metadata |-> [entryCount |-> c, storageMode |-> "indexedDB"]] :
     v \in {BACKUP_VERSION, "0.9.0", ""}, t \in {"t", ""}, h \in BOOLEAN,
     es \in SeqsUpTo(BackupEntries, MaxEntries),
     tc \in {EmptyCfg}, ec \in {NoCfg},
     c \in 0..MaxEntries}

\* validateBackup: throws (ok FALSE) when version, timestamp or entries is missing
\* or a record lacks its id or its query; a version or an entryCount that does not
\* match is only warned about.
validateBackup_strictCount(backupData) ==
  IF backupData.version = "" \/ backupData.timestamp = "" \/ ~backupData.hasEntries
  THEN [ok |-> FALSE, warnings |-> {}]
  ELSE IF \E n \in 1..Len(backupData.entries) :
            backupData.entries[n].id = 0 \/ backupData.entries[n].query = ""
  THEN [ok |-> FALSE,
        warnings |-> IF backupData.version # BACKUP_VERSION THEN {"version"} ELSE {}]
  ELSE [ok |-> backupData.metadata.entryCount = Len(backupData.entries),
        warnings |-> (IF backupData.version # BACKUP_VERSION THEN {"version"} ELSE {})
                       \cup (IF backupData.metadata.entryCount # Len(backupData.entries)
                             THEN {"entryCount"} ELSE {})]
validateBackup(backupData) ==
  IF backupData.version = "" \/ backupData.timestamp = "" \/ ~backupData.hasEntries
  THEN [ok |-> FALSE, warnings |-> {}]
  ELSE IF \E n \in 1..Len(backupData.entries) :
            backupData.entries[n].id = 0 \/ backupData.entries[n].query = ""
  THEN [ok |-> FALSE,
        warnings |-> IF backupData.version # BACKUP_VERSION THEN {"version"} ELSE {}]
  ELSE [ok |-> TRUE,
        warnings |-> (IF backupData.version # BACKUP_VERSION THEN {"version"} ELSE {})
                       \cup (IF backupData.metadata.entryCount # Len(backupData.entries)
                             THEN {"entryCount"} ELSE {})]

\* importBackupFromFile: the parsed file is validated and returned.
ImportBackupFromFile ==
  /\ ops = 0
  /\ \E backupData \in BackupInputs :
       last' = [NoCall EXCEPT !.op = "importBackupFromFile", !.backup = backupData,
                              !.ok = validateBackup(backupData).ok,
                              !.steps = validateBackup(backupData).warnings]
  /\ ops' = ops + 1
  /\ UNCHANGED <<envVars, adapterVars, backendVars, observed, appVars>>

ImportSpec == InitBackend /\ [][ImportBackupFromFile]_vars

\* The backups handed to restoreBackup: valid ones holding record 1, with an
\* image, and record 2, without, in either order, with and without
\* configurations; and one without its version.
RestoreInputs ==
  LET e1 == [id |-> 1, query |-> "Q1", image |-> DataURI("png", "B", "orig"),
             updatedAt |-> 1]
      e2 == [id |-> 2, query |-> "Q2", image |-> NoImage, updatedAt |-> 1]
  IN {[version |-> BACKUP_VERSION, timestamp |-> "t", hasEntries |-> TRUE,
       entries |-> es, tagConfigs |-> cfgs[1], exportConfig |-> cfgs[2],
       metadata |-> [entryCount |-> Len(es), storageMode |-> "indexedDB"]] :
        es \in {<<>>, <<e1>>, <<e2>>, <<e1, e2>>, <<e2, e1>>},
        cfgs \in {<<EmptyCfg, NoCfg>>, <<"cfgA", "cfgB">>}}
     \cup {[NoBackupData EXCEPT !.timestamp = "t", !.hasEntries = TRUE]}

\* createBackup: the records of getAllEntries(), without their images when
\* includeImages is false, and the two configurations, [] and {} standing for
\* the ones not stored; validated unless validate is false.
createBackup(m, w, includeImages, validate, F) ==
  LET all == Adapter_getAllEntries(m, w, F)
      tags == Adapter_getConfig(m, all.w, "tagConfigs", {})
      export == Adapter_getConfig(m, tags.w, "exportConfig", {})
      processedEntries ==
        IF includeImages THEN all.list
        ELSE [n \in 1..Len(all.list) |-> [all.list[n] EXCEPT !.image = NoImage]]
      backupData ==
        [version |-> BACKUP_VERSION, timestamp |-> "t", hasEntries |-> TRUE,
         entries |-> processedEntries,
         tagConfigs |-> IF tags.cfg = NoCfg THEN EmptyCfg ELSE tags.cfg,
         exportConfig |-> IF export.cfg = NoCfg THEN EmptyCfg ELSE export.cfg,
         metadata |-> [entryCount |-> Len(processedEntries), storageMode |-> m]]
  IN [w |-> export.w, ok |-> validate => validateBackup(backupData).ok,
      data |-> backupData]

\* One call of a restore: the call, the record or the config key it is about, and
\* the failure it meets.
Step(s, entry, k, F) == [step |-> s, entry |-> entry, key |-> k, F |-> F]
\* The value of the one-element set S: binds an intermediate result.

\* The calls the try block of restoreBackup makes, in order, when none throws:
\* validateBackup; unless overwrite, createBackup and the stash under
\* 'safety_backup'; clearAll; saveEntry for every record, in the order of the
\* array; saveConfig for tagConfigs when not empty and for exportConfig when present.
restoreCalls_clearFirst(backupData, overwrite, fail) ==
  <<Step("validateBackup", Absent, "-", {}), Step("clearAll", Absent, "-", fail.clear)>>
    \o (IF overwrite THEN <<>> ELSE <<Step("safety_backup", Absent, "-", {})>>)
    \o [n \in 1..Len(backupData.entries) |->
          Step("saveEntry", backupData.entries[n], "-", IF fail.at = n THEN fail.F ELSE {})]
    \o (IF backupData.tagConfigs # EmptyCfg
        THEN <<Step("saveConfig", Absent, "tagConfigs", {})>> ELSE <<>>)
    \o (IF backupData.exportConfig # NoCfg
        THEN <<Step("saveConfig", Absent, "exportConfig", {})>> ELSE <<>>)
restoreCalls(backupData, overwrite, fail) ==
  <<Step("validateBackup", Absent, "-", {})>>
    \o (IF overwrite THEN <<>> ELSE <<Step("safety_backup", Absent, "-", {})>>)
    \o <<Step("clearAll", Absent, "-", fail.clear)>>
    \o [n \in 1..Len(backupData.entries) |->
          Step("saveEntry", backupData.entries[n], "-", IF fail.at = n THEN fail.F ELSE {})]
    \o (IF backupData.tagConfigs # EmptyCfg
        THEN <<Step("saveConfig", Absent, "tagConfigs", {})>> ELSE <<>>)
    \o (IF backupData.exportConfig # NoCfg
        THEN <<Step("saveConfig", Absent, "exportConfig", {})>> ELSE <<>>)

\* One call of the try block, made in the state acc the calls before it left.
restoreCall(m, acc, backupData, call) ==
  LET r == CASE call.step = "clearAll" -> Adapter_clearAll(m, acc.w, call.F)
             [] call.step = "saveEntry" -> Adapter_saveEntry(m, acc.w, call.entry, call.F)
             [] call.step = "saveConfig" ->
                  Adapter_saveConfig(m, acc.w, call.key, backupData[call.key], call.F)
             [] OTHER -> Done(acc.w, FALSE)
      stash == createBackup(m, acc.w, TRUE, FALSE, {})
  IN CASE call.step = "validateBackup" ->
            [acc EXCEPT !.ok = validateBackup(backupData).ok,
                        !.steps = Append(acc.steps, call)]
       [] call.step = "safety_backup" ->
            [acc EXCEPT !.w = stash.w, !.sb = [present |-> TRUE, data |-> stash.data],
                        !.steps = Append(acc.steps, call)]
       [] OTHER -> [acc EXCEPT !.w = r.w, !.ok = r.ok, !.steps = Append(acc.steps, call)]

\* The try block from its n-th call on: it ends with the first call that throws.
RECURSIVE restoreFrom(_, _, _, _, _)
restoreFrom(m, acc, backupData, calls, n) ==
  IF n > Len(calls) \/ ~acc.ok THEN acc
  ELSE Only({restoreFrom(m, next, backupData, calls, n + 1) :
               next \in {restoreCall(m, acc, backupData, calls[n])}})

restoreTry(m, w, sb, backupData, overwrite, fail) ==
  restoreFrom(m, [w |-> w, sb |-> sb, ok |-> TRUE, steps |-> <<>>], backupData,
              restoreCalls(backupData, overwrite, fail), 1)

\* The catch block of restoreBackup with 'safety_backup' stashed: restoreBackup(
\* safetyData, {overwrite: true}), and removeItem when it returns. That call's
\* own catch block finds the stash still there and calls restoreBackup again:
\* one more attempt for every attempt that throws. `again` is the number of
\* attempts whose clearAll still fails; an attempt that throws for a reason
\* that lasts is repeated without end and the promise never settles.
RECURSIVE restoreSafety(_, _, _, _)
restoreSafety(m, w, sb, again) ==
  Only({IF try.ok
        THEN [w |-> try.w, sb |-> NoBackup, steps |-> try.steps, attempts |-> 1,
              settled |-> TRUE]
        ELSE IF again = 0
        THEN [w |-> try.w, sb |-> try.sb, steps |-> try.steps, attempts |-> 1,
              settled |-> FALSE]
        ELSE Only({[next EXCEPT !.steps = try.steps, !.attempts = @ + 1] :
                     next \in {restoreSafety(m, try.w, try.sb, again - 1)}}) :
          try \in {restoreTry(m, w, sb, sb.data, TRUE,
                              [at |-> 0, F |-> {},
                               clear |-> IF again > 0 THEN {"write"} ELSE {},
                               again |-> 0])}})

\* restoreBackup: when the try block threw and a 'safety_backup' is stashed, that
\* backup is restored with overwrite true and then removed; the error is rethrown.
restoreBackup(m, w, sb, backupData, overwrite, fail) ==
  Only({IF main.ok \/ ~main.sb.present
        THEN [w |-> main.w, sb |-> main.sb, ok |-> main.ok, steps |-> main.steps,
              recovery |-> <<>>, attempts |-> 0, settled |-> TRUE]
        ELSE Only({[w |-> safety.w, sb |-> safety.sb,
                    ok |-> FALSE, steps |-> main.steps, recovery |-> safety.steps,
                    attempts |-> safety.attempts, settled |-> safety.settled] :
                     safety \in {restoreSafety(m, main.w, main.sb, fail.again)}}) :
          main \in {restoreTry(m, w, sb, backupData, overwrite, fail)}})

CreateBackup ==
  /\ ensureInitialized /\ ops < MaxOps
  /\ \E includeImages \in BOOLEAN, F \in FaultsOf(mode, "getAllEntries") :
       \E r \in {createBackup(mode, World, includeImages, TRUE, F)} :
          /\ Apply(r.w)
          /\ last' = [NoCall EXCEPT !.op = "createBackup", !.ok = r.ok, !.faults = F,
                                    !.backup = r.data, !.overwrite = includeImages]
  /\ ops' = ops + 1
  /\ observed' = observed \cup {mode}
  /\ UNCHANGED <<envVars, adapterVars, appVars>>

RestoreBackup ==
  /\ ensureInitialized /\ ops < MaxOps
  /\ \E backupData \in RestoreInputs, overwrite \in BOOLEAN :
       \E at \in 0..Len(backupData.entries), again \in 0..MaxRecoveryFailures :
         \* the failure the replayed saveEntry of record `at` meets, if any
         \E F \in {IF at = 0 THEN {}
                   ELSE IF mode = "fileSystem" THEN {"dataQuota"} ELSE {"write"}} :
           \E r \in {restoreBackup(mode, World, safetyBackup, backupData, overwrite,
                                    [at |-> at, F |-> F, clear |-> {}, again |-> again])} :
             /\ Apply(r.w)
             /\ safetyBackup' = r.sb
             /\ last' = [NoCall EXCEPT !.op = "restoreBackup", !.ok = r.ok,
                                       !.faults = F, !.id = at,
                                       !.backup = backupData, !.overwrite = overwrite,
                                       !.steps = r.steps, !.recovery = r.recovery,
                                       !.attempts = r.attempts, !.settled = r.settled]
  /\ ops' = ops + 1
  /\ observed' = observed \cup {mode}
  /\ UNCHANGED <<envVars, adapterVars, posts, dataEntries, mig, lz>>

BackupSpec == InitBackend /\ [][CreateBackup \/ RestoreBackup \/ ImageSaveSettles]_vars

\* C1: when initialization has ended, the committed mode is the first backend in
\* priority order that is available: trueLocalFile if the server answered, else
\* localFile only if a directory handle was obtained, else fileSystem; exactly one
\* mode is chosen.
C1_FirstAvailableBackend ==
  InitDone =>
    /\ initialized /\ mode \in StorageModes
    /\ mode = IF serverUp THEN "trueLocalFile"
              ELSE IF lfHandles.dir THEN "localFile" ELSE "fileSystem"

\* C2: once initialization has ended, the only mode any caller has reached or
\* observed is the one initialization chose.
C2_OnlyFinalModeObserved == InitDone => observed \subseteq {mode}

\* C3: from the moment initialization has chosen the backend, no step changes the
\* adapter's mode, whether the call made in that step succeeds or fails.
C3_ModeNeverChanges == [][InitDone => mode' = mode]_vars
\* A call made after initialization has failed.
C3_FailedCallAfterInit == InitDone /\ initialized /\ ops > 0 /\ ~last.ok

\* C4: a call during which the active backend failed throws to its caller, and a
\* backend that holds a directory handle leaves localStorage alone.
C4_FailureSurfaced ==
  [][Called =>
       /\ last'.failed => ~last'.ok
       /\ mode = "localFile" /\ lfHandles.dir =>
            lsStorage' = lsStorage /\ lsImages' = lsImages]_vars

\* C5: a saveEntry(r) that succeeds leaves getEntry(r.id) returning r's non-image
\* fields, adds no id but r.id to the store (none when r.id was there), and leaves
\* the records of the other ids as they were.
C5_SaveEntryUpserts ==
  [][\A i \in Ids :
       Called /\ last'.op = "saveEntry" /\ last'.id = i /\ last'.ok =>
         /\ Stored(i)' # Absent
         /\ WithoutImage(Stored(i)') = WithoutImage(last'.arg)
         /\ StoredIds' = StoredIds \cup {i}
         /\ \A j \in Ids \ {i} : Stored(j)' = Stored(j)]_vars

\* C6: a deleteEntry(id) made when id is not stored (deleted before, or never
\* saved), during which nothing fails in the backend, returns without error and
\* leaves every record as it was.
C6_DeleteIdempotent ==
  [][Called /\ last'.op = "deleteEntry" /\ last'.faults = {} /\ last'.id \notin StoredIds =>
       /\ last'.ok
       /\ \A j \in Ids : Stored(j)' = Stored(j)]_vars

\* The image bytes a backend's storage holds for id i: a file of the server or of
\* the picked directory, a localStorage key naming i, or a row of the images store.
ImageBytesStored(i) ==
  \/ srvImages[i] # NoImage
  \/ dirImages[i] # NoImage
  \/ \E n \in 1..Len(lsImages) : lsImages[n][1][2] = i
  \/ idbImages[i] # NoImage

\* C7: when a deleteEntry(id) during which nothing fails has returned, the backend's
\* storage holds no image bytes for id.
C7_DeleteRemovesImage ==
  [][\A i \in Ids :
       Called /\ last'.op = "deleteEntry" /\ last'.id = i
         /\ last'.faults = {} /\ last'.ok =>
         ~ImageBytesStored(i)']_vars

\* C8: a saveConfig(key, v) that succeeds makes getConfig(key) return v and leaves
\* the other key alone; apart from saveConfig and clearAll no call changes what
\* getConfig returns.
C8_ConfigPersists ==
  [][Called =>
       /\ \A key \in Keys :
            last'.op = "saveConfig" /\ last'.key = key /\ last'.ok =>
              /\ StoredConfig(key)' = last'.val
              /\ \A k \in Keys \ {key} : StoredConfig(k)' = StoredConfig(k)
       /\ last'.op \notin {"saveConfig", "clearAll"} =>
            \A k \in Keys : StoredConfig(k)' = StoredConfig(k)]_vars

\* The failures that concern only the image of the record being saved.
ImageFaults == {"imgWrite", "quota", "quotaRetry"}

\* C9: a saveEntry during which only the writing of the image fails still returns
\* without error, and getEntry then returns the record's text fields.
C9_ImageFailureKeepsText ==
  [][\A i \in Ids :
       Called /\ last'.op = "saveEntry" /\ last'.id = i /\ last'.arg.image # NoImage
         /\ last'.faults # {} /\ last'.faults \subseteq ImageFaults =>
         /\ last'.ok
         /\ WithoutImage(Stored(i)') = WithoutImage(last'.arg)]_vars

\* C10: in the IndexedDB backend a saveEntry whose text row is committed returns
\* without error while the image write is still pending and no image row has been
\* written; a background image write that fails adds a log line and changes neither
\* the text rows nor what any caller was given.
C10_ImageWriteInBackground ==
  [][mode = "indexedDB" =>
       /\ Called /\ last'.op = "saveEntry" /\ last'.faults = {} =>
            /\ last'.ok
            /\ idbEntries'[last'.id] = WithoutImage(last'.arg)
            /\ idbImages' = idbImages
            /\ last'.arg.image # NoImage =>
                 <<last'.id, last'.arg.image>> \in idbPending'
       /\ idbLog' # idbLog =>
            /\ idbEntries' = idbEntries
            /\ last' = last]_vars
\* A record was saved with an image, saveEntry returned without error, and the
\* background write of its image has failed and been logged.
C10_BackgroundFailureLogged ==
  /\ mode = "indexedDB" /\ last.op = "saveEntry" /\ last.ok
  /\ last.arg.image # NoImage /\ last.id \in idbLog
  /\ idbEntries[last.id] = WithoutImage(last.arg)

\* C11: whatever the interleaving of the saveEntry calls for different ids, every
\* call that has returned success has its record stored and retrievable.
C11_NoLostWrite ==
  \A i \in Ids :
    posts[i].pc = "done" =>
      /\ Stored(i) # Absent
      /\ WithoutImage(Stored(i)) = WithoutImage(posts[i].entry)

\* C12: getAllEntriesForExport() returns, for a record saved with an image whose
\* write has completed, an image byte-identical to the one that was saved.
C12_ExportFullResolution ==
  [][\A i \in Ids :
       (/\ last.op = "saveEntry" /\ last.ok /\ ~last.failed /\ last.id = i
        /\ last.arg.image # NoImage
        /\ i \notin idbPending /\ i \notin idbLog
        /\ Called /\ last'.op = "getAllEntriesForExport" /\ last'.faults = {})
       => \E n \in 1..Len(last'.list) :
            /\ last'.list[n].id = i
            /\ last'.list[n].image.kind = "data"
            /\ Bytes(last'.list[n].image) = Bytes(last.arg.image)]_vars

\* C13: in every state the lists that getAllEntries() and getAllEntriesForExport()
\* return (nothing failing) are ordered by updatedAt, newest first.
C13_NewestFirst ==
  initialized =>
    \A list \in {Adapter_getAllEntries(mode, World, {}).list,
                 Adapter_getAllEntriesForExport(mode, World, {}).list} :
      \A n \in 1..(Len(list) - 1) : list[n].updatedAt >= list[n + 1].updatedAt

\* C14: a record is created with version 1 and an empty history; after N edits
\* its version is N+1 and its history holds N entries with versions 1..N in
\* order, each the snapshot of the record before that edit ...
C14_VersionCountsEdits ==
  /\ [](\A i \in Ids :
    LET rec == dataEntries[i] IN
    rec # NoRecord =>
      /\ rec.id = i
      /\ rec.version = Len(rec.history) + 1
      /\ \A n \in 1..Len(rec.history) :
           /\ rec.history[n].version = n
           /\ rec.history[n].data.version = n
           /\ rec.history[n].data.id = i
           /\ rec.history[n].data.createdAt = rec.createdAt
           /\ rec.history[n].data.history = SubSeq(rec.history, 1, n - 1)
           /\ rec.history[n].data.updatedAt
                = (IF n = 1 THEN rec.createdAt ELSE rec.history[n - 1].timestamp)
      /\ rec.updatedAt = (IF rec.history = <<>> THEN rec.createdAt
                          ELSE rec.history[Len(rec.history)].timestamp))
\* ... and an edit keeps the record's id and createdAt and appends the record as
\* it was to the history.
  /\ [][\A i \in Ids :
       (dataEntries[i] # NoRecord /\ dataEntries'[i] # dataEntries[i]) =>
         /\ dataEntries'[i].id = dataEntries[i].id
         /\ dataEntries'[i].createdAt = dataEntries[i].createdAt
         /\ dataEntries'[i].version = dataEntries[i].version + 1
         /\ dataEntries'[i].history[Len(dataEntries'[i].history)].data = dataEntries[i]]_vars
C14_EditedTwice ==
  \E i \in Ids : dataEntries[i].version = 3 /\ Len(dataEntries[i].history) = 2

\* C18: validateBackup fails when version, timestamp or entries is missing or a
\* record lacks its id or a non-empty query, and otherwise succeeds: a version or
\* an entryCount that does not match is only warned about.
C18_ValidationRules ==
  last.op = "importBackupFromFile" =>
    LET b == last.backup IN
    /\ (b.version = "" \/ b.timestamp = "" \/ ~b.hasEntries) => ~last.ok
    /\ (\E n \in 1..Len(b.entries) : b.entries[n].id = 0 \/ b.entries[n].query = "")
         => ~last.ok
    /\ (/\ b.version # "" /\ b.timestamp # "" /\ b.hasEntries
        /\ \A n \in 1..Len(b.entries) : b.entries[n].id # 0 /\ b.entries[n].query # "")
         => /\ last.ok
            /\ ("entryCount" \in last.steps) = (b.metadata.entryCount # Len(b.entries))
            /\ ("version" \in last.steps) = (b.version # BACKUP_VERSION)
C18_MismatchOnlyWarned ==
  /\ last.op = "importBackupFromFile" /\ last.ok
  /\ last.steps = {"version", "entryCount"}
  /\ Len(last.backup.entries) = 2

\* C15: a restoreBackup with overwrite false whose replay of a record throws
\* leaves the store as it was before the restore: the same records with the same
\* fields and images, and the same configurations.
C15_FailedRestoreRollsBack ==
  [][(/\ Called /\ last'.op = "restoreBackup" /\ ~last'.overwrite /\ ~last'.ok
      /\ last'.steps[Len(last'.steps)].step = "saveEntry")
     => /\ \A i \in Ids : Stored(i)' = Stored(i)
        /\ \A k \in Keys : StoredConfig(k)' = StoredConfig(k)]_vars

\* C16: a restoreBackup whose backup fails validation raises an error and leaves
\* the records and the configurations of the store exactly as they were, whatever
\* backups and restores came before it.
C16_InvalidBackupChangesNothing ==
  [][(/\ Called /\ last'.op = "restoreBackup" /\ ~validateBackup(last'.backup).ok)
     => /\ ~last'.ok
        /\ \A i \in Ids : Stored(i)' = Stored(i)
        /\ \A k \in Keys : StoredConfig(k)' = StoredConfig(k)]_vars

C19_BackupCarriesOriginals ==
  [][(Called /\ last'.op = "createBackup" /\ last'.overwrite /\ last'.faults = {}) =>
       \A n \in 1..Len(last'.backup.entries), i \in Ids :
         last'.backup.entries[n].id = i =>
           /\ last'.backup.entries[n].image = Stored(i).image
           /\ last'.backup.entries[n].image.q # "thumb"]_vars

\* C20: the backup createBackup builds with includeImages false holds every
\* stored record, each without image and with its other fields intact, and its
\* metadata.entryCount is the number of stored records.
C20_BackupWithoutImages ==
  [][(Called /\ last'.op = "createBackup" /\ ~last'.overwrite) =>
       LET entries == last'.backup.entries
       IN /\ last'.ok
          /\ {entries[n].id : n \in 1..Len(entries)} = StoredIds
          /\ Len(entries) = Cardinality(StoredIds)
          /\ last'.backup.metadata.entryCount = Cardinality(StoredIds)
          /\ \A n \in 1..Len(entries), i \in Ids :
               entries[n].id = i => entries[n] = WithoutImage(Stored(i))]_vars

\* ==================================================== MigrationManager
\* The legacy localStorage keys 'dataEntries', 'tagConfigs', 'exportConfig' are
\* read with getCompressedItem (null when the key is absent); mig holds what
\* they decode to. tagConfigs is an array ([] is EmptyCfg), exportConfig an
\* object ({} is EmptyCfg).
batchSize == 50
DbStatus(w) == w.idbConfigs[MIGRATION_STATUS]

\* getMigrationStatus: dbManager.getConfig, which answers null when it fails.
getMigrationStatus(w, F) ==
  LET r == Db_getConfig(w, MIGRATION_STATUS, F)
  IN IF r.failed THEN NoStatus ELSE r.cfg

\* !!(dataEntries?.length || tagConfigs?.length || exportConfig)
hasLocalStorageData(m) ==
  \/ Len(m.dataEntries) > 0
  \/ m.tagConfigs \notin {NoCfg, EmptyCfg}
  \/ m.exportConfig # NoCfg

needsMigration(w, m, F) ==
  LET migrationStatus == getMigrationStatus(w, F)
  IN IF migrationStatus.isCompleted /\ migrationStatus.version = MIGRATION_VERSION
     THEN FALSE
     ELSE hasLocalStorageData(m)

\* One entry of a batch: try { await dbManager.saveEntry(entry); migratedCount++ }
\* catch { log }. acc is [w, migratedCount, attempted, rejected]: the world, the
\* counter, the ids saveEntry was called for and the ids logged as failed.
migrateEntry_countsFailures(acc, entry, bad) ==
  LET r == Db_saveEntry(acc.w, entry, IF entry.id \in bad THEN {"write"} ELSE {})
  IN [w |-> r.w, migratedCount |-> acc.migratedCount + 1,
      attempted |-> acc.attempted \cup {entry.id},
      rejected |-> acc.rejected \cup (IF r.ok THEN {} ELSE {entry.id})]
migrateEntry(acc, entry, bad) ==
  LET r == Db_saveEntry(acc.w, entry, IF entry.id \in bad THEN {"write"} ELSE {})
  IN [w |-> r.w, migratedCount |-> acc.migratedCount + (IF r.ok THEN 1 ELSE 0),
      attempted |-> acc.attempted \cup {entry.id},
      rejected |-> acc.rejected \cup (IF r.ok THEN {} ELSE {entry.id})]

\* await Promise.all(batch.map(...)): every entry of the batch is tried.
RECURSIVE migrateBatch(_, _, _, _)
migrateBatch(acc, batch, bad, n) ==
  IF n > Len(batch) THEN acc
  ELSE Only({migrateBatch(next, batch, bad, n + 1) :
               next \in {migrateEntry(acc, batch[n], bad)}})

\* migrateConfigs -> [w, configsCount]: a failed saveConfig ends it with the
\* count so far.
migrateConfigs(w, m, F) ==
  LET tag == Db_saveConfig(w, "tagConfigs", m.tagConfigs,
                           IF "tagWrite" \in F THEN {"write"} ELSE {})
      w1 == IF m.tagConfigs # NoCfg THEN tag.w ELSE w
      n1 == IF m.tagConfigs # NoCfg THEN 1 ELSE 0
      export == Db_saveConfig(w1, "exportConfig", m.exportConfig,
                              IF "exportWrite" \in F THEN {"write"} ELSE {})
  IN IF m.tagConfigs # NoCfg /\ ~tag.ok THEN [w |-> w, configsCount |-> 0]
     ELSE IF m.exportConfig = NoCfg THEN [w |-> w1, configsCount |-> n1]
     ELSE IF ~export.ok THEN [w |-> w1, configsCount |-> n1]
     ELSE [w |-> export.w, configsCount |-> n1 + 1]

\* validateMigration().isValid: the entry counts match and each legacy config
\* has a counterpart in IndexedDB.
validateMigration(w, m, F) ==
  LET indexedDBEntries == Db_getAllEntries(w, F).list
      indexedTagConfigs == Db_getConfig(w, "tagConfigs", F).cfg
      indexedExportConfig == Db_getConfig(w, "exportConfig", F).cfg
  IN /\ Len(m.dataEntries) = Len(indexedDBEntries)
     /\ ~(m.tagConfigs # NoCfg /\ indexedTagConfigs = NoCfg)
     /\ ~(m.exportConfig # NoCfg /\ indexedExportConfig = NoCfg)

\* clearMigrationStatus: an empty status is saved; a failure is only logged.
clearMigrationStatus(w, F) ==
  LET r == Db_saveConfig(w, MIGRATION_STATUS, [NoStatus EXCEPT !.present = TRUE], F)
  IN IF r.ok THEN r.w ELSE w

\* rollback -> [w, m]: what IndexedDB holds is written back over the legacy keys.
rollback(w, m, F) ==
  LET entries == Db_getAllEntries(w, {}).list
      tagConfigs == Db_getConfig(w, "tagConfigs", {}).cfg
      exportConfig == Db_getConfig(w, "exportConfig", {}).cfg
  IN [w |-> clearMigrationStatus(w, F),
      m |-> [m EXCEPT
               !.dataEntries = IF Len(entries) > 0 THEN entries ELSE @,
               !.tagConfigs = IF tagConfigs # NoCfg THEN tagConfigs ELSE @,
               !.exportConfig = IF exportConfig # NoCfg THEN exportConfig ELSE @]]

\* ------------------------------------------------ migrate(), await by await
MaxRuns == 1                     \* migrate() calls in one behaviour
MaxStoreOps == 1                 \* adapter calls after a completed migration
LegacyCounts == {0, 2, 120}
FaultyIds == {2, 51}             \* records whose saveEntry may be rejected
\* n legacy records; the first carries an image.
LegacyEntries(n) ==
  [i \in 1..n |-> [id |-> i, query |-> "Q1",
                   image |-> IF i = 1 THEN DataURI("png", "B", "orig") ELSE NoImage,
                   updatedAt |-> 1]]
Total_recordsOnly(m) == Len(m.dataEntries)
Total(m) == Len(m.dataEntries) + 2
Running == mig.pc \in {"entries", "configs", "status", "rollback"}
Report(m, current) == [m EXCEPT !.reports = Append(@, <<current, Total(m)>>)]

\* A startup asks needsMigration(); the read of the status may fail.
NeedsMigration ==
  /\ ~Running
  /\ \E F \in DbFaults("getConfig") :
       last' = [NoCall EXCEPT !.op = "needsMigration", !.faults = F,
                              !.ok = needsMigration(World, mig, F)]
  /\ UNCHANGED <<envVars, adapterVars, backendVars, observed, ops, appVars>>

\* needsMigration() said yes and migrate() is entered. It reports (0, total);
\* with no legacy records migrateDataEntries returns 0 at once.
MigrateStart ==
  /\ ~Running /\ mig.runs < MaxRuns
  /\ last.op = "needsMigration" /\ last.ok
  /\ LET m0 == Report([mig EXCEPT !.at = 0, !.migratedCount = 0, !.configsCount = 0,
                                  !.attempted = {}, !.rejected = {}, !.reports = <<>>,
                                  !.runs = @ + 1], 0)
     IN mig' = IF Len(mig.dataEntries) = 0
               THEN Report([m0 EXCEPT !.pc = "configs"], 0)
               ELSE [m0 EXCEPT !.pc = "entries"]
  /\ UNCHANGED <<envVars, adapterVars, backendVars, observed, last, ops,
                 posts, dataEntries, safetyBackup, lz>>

\* migrateDataEntries: the next batch of batchSize entries, then its report;
\* after the last batch migrate() reports currentStep = entriesCount.
MigrateBatch ==
  /\ mig.pc = "entries"
  /\ LET n == Len(mig.dataEntries)
         hi == IF mig.at + batchSize < n THEN mig.at + batchSize ELSE n
         batch == SubSeq(mig.dataEntries, mig.at + 1, hi)
     IN \E bad \in SUBSET (FaultyIds \cap (mig.at + 1)..hi) :
          \E r \in {migrateBatch([w |-> World, migratedCount |-> mig.migratedCount,
                                  attempted |-> mig.attempted,
                                  rejected |-> mig.rejected], batch, bad, 1)} :
            /\ Apply(r.w)
            /\ LET m1 == Report([mig EXCEPT !.at = hi,
                                            !.migratedCount = r.migratedCount,
                                            !.attempted = r.attempted,
                                            !.rejected = r.rejected],
                                r.migratedCount)
               IN mig' = IF hi < n THEN m1
                         ELSE Report([m1 EXCEPT !.pc = "configs"], r.migratedCount)
  /\ UNCHANGED <<envVars, adapterVars, observed, last, ops,
                 posts, dataEntries, safetyBackup, lz>>

\* migrateConfigs, then the report of currentStep = entriesCount + configsCount.
MigrateConfigs ==
  /\ mig.pc = "configs"
  /\ \E F \in {{}, {"tagWrite"}, {"exportWrite"}} :
       \E r \in {migrateConfigs(World, mig, F)} :
         /\ Apply(r.w)
         /\ mig' = Report([mig EXCEPT !.pc = "status", !.configsCount = r.configsCount],
                          mig.migratedCount + r.configsCount)
  /\ UNCHANGED <<envVars, adapterVars, observed, last, ops,
                 posts, dataEntries, safetyBackup, lz>>

\* validateMigration (a failure is only warned about), saveMigrationStatus, the
\* last report (total, total). A rejected saveMigrationStatus is the error that
\* migrate()'s catch block answers with rollback().
MigrateStatus ==
  /\ mig.pc = "status"
  /\ \E F \in {{}, {"write"}} :
       \E r \in {Db_saveConfig(World, MIGRATION_STATUS,
                               [present |-> TRUE, isCompleted |-> TRUE,
                                version |-> MIGRATION_VERSION,
                                entriesCount |-> mig.migratedCount,
                                configsCount |-> mig.configsCount], F)} :
         /\ Apply(r.w)
         /\ mig' = IF r.ok
                   THEN Report([mig EXCEPT !.pc = "done",
                                           !.valid = validateMigration(World, mig, {})],
                               Total(mig))
                   ELSE [mig EXCEPT !.pc = "rollback",
                                    !.valid = validateMigration(World, mig, {})]
  /\ UNCHANGED <<envVars, adapterVars, observed, last, ops,
                 posts, dataEntries, safetyBackup, lz>>

\* catch: await this.rollback() (its own failure is logged), then the error is
\* thrown to the caller.
MigrateRollback ==
  /\ mig.pc = "rollback"
  /\ \E r \in {rollback(World, mig, {})} :
       /\ Apply(r.w)
       /\ mig' = [r.m EXCEPT !.pc = "failed"]
  /\ UNCHANGED <<envVars, adapterVars, observed, last, ops,
                 posts, dataEntries, safetyBackup, lz>>

\* IndexedDB is the committed backend; the legacy keys hold what an earlier
\* release of the application left in localStorage.
InitMigration ==
  /\ \E n \in LegacyCounts, tag \in {NoCfg, EmptyCfg, "cfgA"}, export \in {NoCfg, "cfgB"} :
       /\ n > 2 => (tag = "cfgA" /\ export = "cfgB")
       /\ mig = [NoMigration EXCEPT !.dataEntries = LegacyEntries(n),
                                    !.tagConfigs = tag, !.exportConfig = export]
  /\ serverUp = FALSE /\ dirAccess = "unasked"
  /\ mode = "indexedDB" /\ initialized = TRUE /\ initPc = "done"
  /\ observed = {} /\ tlReady = FALSE
  /\ srvEntries = NoEntries /\ srvImages = NoImages /\ srvConfig = NoConfigs
  /\ lfHandles = [dir |-> FALSE, images |-> FALSE] /\ lfEntries = NoEntries
  /\ dirEntries = NoEntries /\ dirImages = NoImages
  /\ lsStorage = NoStorage /\ lsImages = <<>>
  /\ fsEntries = NoEntries /\ fsConfig = [k \in Keys |-> EmptyCfg]
  /\ idbEntries = [i \in Ids \cup 1..Len(mig.dataEntries) |-> Absent]
  /\ idbImages = [i \in Ids \cup 1..Len(mig.dataEntries) |-> NoImage]
  /\ idbConfigs = [k \in Keys \cup {MIGRATION_STATUS} |->
                      IF k \in Keys THEN NoCfg ELSE NoStatus]
  /\ idbPending = {} /\ idbLog = {} /\ keyOrder = <<>>
  /\ last = NoCall /\ ops = 0
  /\ posts = [i \in Ids |-> NoPost] /\ dataEntries = [i \in Ids |-> NoRecord]
  /\ safetyBackup = NoBackup
  /\ lz = NoItem

\* After a completed migration the application saves, deletes and clears through
\* the adapter. The image saves that migrateDataEntries starts stay in flight:
\* their settling touches the store 'images' only.
StoreSaveEntry ==
  /\ mig.pc = "done" /\ ensureInitialized /\ ops < MaxStoreOps
  /\ \E entry \in {[id |-> 2, query |-> "Q2", image |-> NoImage, updatedAt |-> ops + 1]} :
       Call("saveEntry", entry.id, "-", entry, NoCfg, {},
            Adapter_saveEntry(mode, World, entry, {}))
StoreDeleteEntry ==
  /\ mig.pc = "done" /\ ensureInitialized /\ ops < MaxStoreOps
  /\ Call("deleteEntry", 1, "-", Absent, NoCfg, {}, Adapter_deleteEntry(mode, World, 1, {}))
StoreClearAll ==
  /\ mig.pc = "done" /\ ensureInitialized /\ ops < MaxStoreOps
  /\ Call("clearAll", 0, "-", Absent, NoCfg, {}, Adapter_clearAll(mode, World, {}))

MigrationNext ==
  \/ NeedsMigration \/ MigrateStart \/ MigrateBatch \/ MigrateConfigs \/ MigrateStatus \/ MigrateRollback
  \/ StoreSaveEntry \/ StoreDeleteEntry \/ StoreClearAll
MigrationSpec == InitMigration /\ [][MigrationNext]_vars

\* C21: when migrate() fails, its rollback leaves the legacy keys as they were
\* before migrate() was called: the same records with the same fields and
\* images, and the same two configurations; then the error reaches the caller.
C21_FailedMigrationKeepsLegacy ==
  [][(mig.pc = "rollback" /\ mig'.pc = "failed")
     => /\ mig'.dataEntries = mig.dataEntries
        /\ mig'.tagConfigs = mig.tagConfigs
        /\ mig'.exportConfig = mig.exportConfig]_vars

\* C22: once a migration has completed, needsMigration() answers false at every
\* later startup, whatever saveEntry, deleteEntry and clearAll calls came in
\* between.
C22_MigrationIsOneShot ==
  mig.pc = "done" => ~needsMigration(World, mig, {})

\* C23: needsMigration() answers true exactly when the store holds no completed
\* marker of the current migration version and the legacy keys hold records,
\* tag configurations or an export configuration.
C23_NeedsMigrationIff ==
  [][(last'.op = "needsMigration" /\ last' # last)
     => (last'.ok <=>
           /\ ~(DbStatus(World).isCompleted
                /\ DbStatus(World).version = MIGRATION_VERSION)
           /\ \/ Len(mig.dataEntries) > 0
              \/ mig.tagConfigs \notin {NoCfg, EmptyCfg}
              \/ mig.exportConfig # NoCfg)]_vars

\* C24: a completed marker of the current version is in the store only when
\* migrate() has run to its end with all batches and both configurations done
\* and validateMigration() has found the counts equal and each configuration in
\* IndexedDB; never while migrate() is under way or after it failed.
C24_MarkerOnlyAfterValidation ==
  (DbStatus(World).isCompleted /\ DbStatus(World).version = MIGRATION_VERSION)
    => /\ mig.pc = "done"
       /\ mig.at = Len(mig.dataEntries)
       /\ mig.valid

\* Batches of migrateDataEntries that have reported, and the records in the
\* first k of them.
BatchesDone == (mig.at + batchSize - 1) \div batchSize
UpTo(k) == 1..(IF k * batchSize < Len(mig.dataEntries) THEN k * batchSize
              ELSE Len(mig.dataEntries))

\* C25 as stated: for 120 legacy records the three reports after the batches are
\* (50,122), (100,122) and (122,122).
C25_ReportsAsStated ==
  (Len(mig.dataEntries) = 120 /\ mig.pc = "done" /\ mig.rejected = {})
    => /\ SubSeq(mig.reports, 2, 4) = <<<<50, 122>>, <<100, 122>>, <<122, 122>>>>
       /\ DbStatus(World).isCompleted => DbStatus(World).entriesCount = 120

\* C25: migrate() first reports (0, total) and after each batch of 50 records
\* (records saved so far, total), with total = legacy records + 2; the completed
\* marker carries the number of records saved as entriesCount. For 120 records,
\* none rejected, the batch reports are (50,122), (100,122), (120,122).
C25_ProgressReports ==
  mig.pc \in {"entries", "configs", "status", "done"} =>
    /\ \A r \in 1..Len(mig.reports) : mig.reports[r][2] = Len(mig.dataEntries) + 2
    /\ mig.reports[1][1] = 0
    /\ Len(mig.reports) >= 1 + BatchesDone
    /\ \A k \in 1..BatchesDone :
         mig.reports[1 + k][1] =
           Cardinality({j \in UpTo(k) : mig.dataEntries[j].id \notin mig.rejected})
    /\ (mig.pc = "done" /\ DbStatus(World).isCompleted)
         => DbStatus(World).entriesCount = Cardinality(mig.attempted \ mig.rejected)
    /\ (Len(mig.dataEntries) = 120 /\ mig.rejected = {} /\ mig.at = 120)
         => SubSeq(mig.reports, 2, 4) = <<<<50, 122>>, <<100, 122>>, <<120, 122>>>>
C25_Migrated120 ==
  /\ mig.pc = "done" /\ Len(mig.dataEntries) = 120 /\ mig.rejected = {}
  /\ mig.reports = <<<<0, 122>>, <<50, 122>>, <<100, 122>>, <<120, 122>>,
                     <<120, 122>>, <<122, 122>>, <<122, 122>>>>
  /\ DbStatus(World).isCompleted /\ DbStatus(World).entriesCount = 120

\* C26: a record whose saveEntry is rejected does not end its batch or the
\* migration: saveEntry is called for every legacy record, the counter leaves
\* the rejected ones out, the batches never lead to the rollback, and the marker
\* carries the number of records saved.
C26_RecordFailureIsolated ==
  /\ [](mig.pc \in {"configs", "status", "done"} =>
          /\ mig.attempted = {mig.dataEntries[j].id : j \in 1..Len(mig.dataEntries)}
          /\ mig.migratedCount = Len(mig.dataEntries) - Cardinality(mig.rejected))
  /\ [][mig.pc = "entries" => mig'.pc \in {"entries", "configs"}]_vars
  /\ [][(mig.pc = "status" /\ mig'.pc = "done")
        => DbStatus(World)'.entriesCount =
             Cardinality({j \in 1..Len(mig.dataEntries) :
                            mig.dataEntries[j].id \notin mig.rejected})]_vars
C26_MigratedAroundFailures ==
  /\ mig.pc = "done" /\ Len(mig.dataEntries) = 120 /\ mig.rejected = {2, 51}
  /\ mig.attempted = 1..120
  /\ DbStatus(World).isCompleted /\ DbStatus(World).entriesCount = 118

\* ============================================================ LZString
\* keyStrBase64 as code units: A-Z, a-z, 0-9, '+', '/', '='.
keyStrBase64 ==
  [n \in 1..65 |-> IF n <= 26 THEN 64 + n
                   ELSE IF n <= 52 THEN 70 + n
                   ELSE IF n <= 62 THEN n - 5
                   ELSE IF n = 63 THEN 43 ELSE IF n = 64 THEN 47 ELSE 61]
bitsPerChar == 6
resetValue == 32
\* getCharFromInt: keyStrBase64.charAt(a)
getCharFromInt(a) == keyStrBase64[a + 1]
\* keyStrBase64.indexOf(ch): -1 when ch is not in the alphabet
indexOf(ch) ==
  IF \E n \in 1..65 : keyStrBase64[n] = ch
  THEN (CHOOSE n \in 1..65 : keyStrBase64[n] = ch) - 1
  ELSE -1

\* _compress. The context: context_dictionary as the sequence of its keys (the
\* key at place k has the code k + 2), context_dictionaryToCreate as a set,
\* context_w, context_enlargeIn, context_dictSize, context_numBits,
\* context_data, context_data_val, context_data_position.
NewContext == [dictionary |-> <<>>, toCreate |-> {}, w |-> <<>>, enlargeIn |-> 2,
               dictSize |-> 3, numBits |-> 2, data |-> <<>>, val |-> 0, position |-> 0]
InDictionary(c, key) == \E k \in 1..Len(c.dictionary) : c.dictionary[k] = key
CodeOf(c, key) == (CHOOSE k \in 1..Len(c.dictionary) : c.dictionary[k] = key) + 2

\* context_data_val = (context_data_val << 1) | bit, pushed when 6 bits are in.
PutBit(c, bit) ==
  IF c.position = bitsPerChar - 1
  THEN [c EXCEPT !.position = 0, !.val = 0,
                 !.data = Append(@, getCharFromInt(c.val * 2 + bit))]
  ELSE [c EXCEPT !.position = @ + 1, !.val = c.val * 2 + bit]
\* for (i = 0; i < n; i++) { put value & 1; value = value >> 1 }
RECURSIVE PutBits(_, _, _)
PutBits(c, n, value) ==
  IF n = 0 THEN c
  ELSE Only({PutBits(next, n - 1, value \div 2) : next \in {PutBit(c, value % 2)}})
\* context_enlargeIn--; at 0 it becomes 2^numBits and numBits grows.
Enlarge(c) ==
  IF c.enlargeIn = 1
  THEN [c EXCEPT !.enlargeIn = 2 ^ c.numBits, !.numBits = @ + 1]
  ELSE [c EXCEPT !.enlargeIn = @ - 1]
\* Writing context_w out: a character seen for the first time goes out as a
\* marker (0: 8 bits follow, 1: 16 bits follow) and its code unit, anything
\* else as its dictionary code.
WriteW(c) ==
  IF c.w \in c.toCreate
  THEN Only({Enlarge([c2 EXCEPT !.toCreate = @ \ {c.w}]) :
               c2 \in {Enlarge(c1) :
                 c1 \in {PutBits(c0, IF c.w[1] < 256 THEN 8 ELSE 16, c.w[1]) :
                   c0 \in {PutBits(c, c.numBits, IF c.w[1] < 256 THEN 0 ELSE 1)}}}})
  ELSE Only({Enlarge(c1) : c1 \in {PutBits(c, c.numBits, CodeOf(c, c.w))}})
\* One turn of the loop over the input, for the character ch.
CompressChar(c, ch) ==
  Only({IF InDictionary(c0, c0.w \o <<ch>>)
        THEN [c0 EXCEPT !.w = c0.w \o <<ch>>]
        ELSE Only({[c1 EXCEPT !.dictionary = Append(@, c0.w \o <<ch>>),
                              !.dictSize = @ + 1, !.w = <<ch>>] :
                     c1 \in {WriteW(c0)}}) :
          c0 \in {IF InDictionary(c, <<ch>>) THEN c
                  ELSE [c EXCEPT !.dictionary = Append(@, <<ch>>), !.dictSize = @ + 1,
                                 !.toCreate = @ \cup {<<ch>>}]}})
RECURSIVE CompressFrom(_, _, _)
CompressFrom(c, uncompressed, ii) ==
  IF ii > Len(uncompressed) THEN c
  ELSE Only({CompressFrom(next, uncompressed, ii + 1) :
               next \in {CompressChar(c, uncompressed[ii])}})
\* while (true): zeros are shifted in until the last character is full.
RECURSIVE Flush(_)
Flush(c) ==
  IF c.position = bitsPerChar - 1
  THEN Append(c.data, getCharFromInt(c.val * 2))
  ELSE Only({Flush(next) : next \in {[c EXCEPT !.val = c.val * 2, !.position = @ + 1]}})
_compress(uncompressed) ==
  Only({Flush(c2) :
          c2 \in {PutBits(c1, c1.numBits, 2) :
            c1 \in {IF c0.w # <<>> THEN WriteW(c0) ELSE c0 :
              c0 \in {CompressFrom(NewContext, uncompressed, 1)}}}})
Padding(n) == [k \in 1..((4 - (n % 4)) % 4) |-> 61]
compressToBase64(input) ==
  Only({res \o Padding(Len(res)) : res \in {_compress(input)}})

\* _decompress. getNextValue(index): the alphabet index of input.charAt(index);
\* a character outside the alphabet gives null and past the end charAt gives ""
\* whose indexOf is 0: `|| 0` makes both 0.
getNextValue(input, index) ==
  IF index >= Len(input) THEN 0
  ELSE IF indexOf(input[index + 1]) < 0 THEN 0
  ELSE indexOf(input[index + 1])
\* while (power !== maxpower): one bit per turn, least significant first.
\* r is [bits, data] with data = {val, position, index}.
RECURSIVE ReadFrom(_, _, _, _)
ReadFrom(input, r, maxpower, power) ==
  IF power = maxpower THEN r
  ELSE Only({ReadFrom(input, next, maxpower, power * 2) :
         next \in {[bits |-> r.bits + (IF (r.data.val \div r.data.position) % 2 = 1
                                       THEN power ELSE 0),
                    data |-> IF r.data.position \div 2 = 0
                             THEN [val |-> getNextValue(input, r.data.index),
                                   position |-> resetValue,
                                   index |-> r.data.index + 1]
                             ELSE [r.data EXCEPT !.position = @ \div 2]]}})
ReadBits(input, data, n) == ReadFrom(input, [bits |-> 0, data |-> data], 2 ^ n, 1)

\* The loop of _decompress. s holds data, dictionary (the entry of code k at
\* place k + 1), dictSize, enlargeIn, numBits, w and result.
GrowIfDue(s) ==
  IF s.enlargeIn = 0 THEN [s EXCEPT !.enlargeIn = 2 ^ s.numBits, !.numBits = @ + 1]
  ELSE s
charAt0(s) == IF s = <<>> THEN <<>> ELSE <<s[1]>>
RECURSIVE DecompressLoop(_, _)
\* After the switch: t is the state, bits the code to look up.
DecompressEntry(input, t, bits) ==
  Only({IF bits < u.dictSize /\ u.dictionary[bits + 1] # <<>>
        THEN DecompressLoop(input, GrowIfDue(
               [u EXCEPT !.result = @ \o u.dictionary[bits + 1],
                         !.dictionary = Append(@, u.w \o charAt0(u.dictionary[bits + 1])),
                         !.dictSize = @ + 1, !.enlargeIn = @ - 1,
                         !.w = u.dictionary[bits + 1]]))
        ELSE IF bits = u.dictSize
        THEN DecompressLoop(input, GrowIfDue(
               [u EXCEPT !.result = @ \o (u.w \o charAt0(u.w)),
                         !.dictionary = Append(@, u.w \o charAt0(u.w)),
                         !.dictSize = @ + 1, !.enlargeIn = @ - 1,
                         !.w = u.w \o charAt0(u.w)]))
        ELSE <<>> :
          u \in {GrowIfDue(t)}})
DecompressLoop(input, s) ==
  IF s.data.index > Len(input) THEN <<>>
  ELSE Only({
    IF r.bits = 2 THEN s.result
    ELSE IF r.bits \in {0, 1}
    THEN Only({DecompressEntry(input,
                 [s EXCEPT !.data = ch.data,
                           !.dictionary = Append(@, <<ch.bits>>),
                           !.dictSize = @ + 1, !.enlargeIn = @ - 1],
                 s.dictSize) :
            ch \in {ReadBits(input, r.data, IF r.bits = 0 THEN 8 ELSE 16)}})
    ELSE DecompressEntry(input, [s EXCEPT !.data = r.data], r.bits) :
      r \in {ReadBits(input, s.data, s.numBits)}})
_decompress(input) ==
  Only({
    IF r.bits = 2 THEN <<>>
    ELSE Only({DecompressLoop(input,
                 [data |-> first.data,
                  dictionary |-> <<<<0>>, <<1>>, <<2>>, first.c>>,
                  dictSize |-> 4, enlargeIn |-> 4, numBits |-> 3,
                  w |-> first.c, result |-> first.c]) :
            first \in {IF r.bits = 3 THEN [c |-> <<>>, data |-> r.data]
                       ELSE Only({[c |-> <<ch.bits>>, data |-> ch.data] :
                              ch \in {ReadBits(input, r.data,
                                               IF r.bits = 0 THEN 8 ELSE 16)}})}}) :
      r \in {ReadBits(input, [val |-> getNextValue(input, 0),
                              position |-> resetValue, index |-> 1], 2)}})
\* decompressFromBase64: null for "", else _decompress over the alphabet indexes.
decompressFromBase64(input) ==
  IF input = <<>> THEN NoResult
  ELSE [NoResult EXCEPT !.null = FALSE, !.text = _decompress(input)]

\* JSON values: strings over the alphabet of the texts, and a few literals.
\* JSON.stringify quotes a string (none of the letters needs an escape) and
\* prints a literal as its text.
Str(t) == [type |-> "string", name |-> "", chars |-> t]
Lit(n) == [type |-> "literal", name |-> n, chars |-> <<>>]
Literals == {"[]", "{}", "1", "true", "[1]"}
LiteralText(n) ==
  CASE n = "[]" -> <<91, 93>>
    [] n = "{}" -> <<123, 125>>
    [] n = "1" -> <<49>>
    [] n = "true" -> <<116, 114, 117, 101>>
    [] n = "[1]" -> <<91, 49, 93>>
stringify(v) ==
  IF v.type = "string" THEN <<34>> \o v.chars \o <<34>> ELSE LiteralText(v.name)
\* JSON.parse: a quoted run of plain characters is a string, the text of a
\* literal is the literal, any other text here is a SyntaxError.
Letters == {97, 98, 321}
parse(text) ==
  IF /\ Len(text) >= 2 /\ text[1] = 34 /\ text[Len(text)] = 34
     /\ \A k \in 2..(Len(text) - 1) : text[k] \in Letters
  THEN [NoResult EXCEPT !.null = FALSE, !.value = Str(SubSeq(text, 2, Len(text) - 1))]
  ELSE IF \E n \in Literals : LiteralText(n) = text
  THEN [NoResult EXCEPT !.null = FALSE,
                        !.value = Lit(CHOOSE n \in Literals : LiteralText(n) = text)]
  ELSE [NoResult EXCEPT !.null = FALSE, !.threw = TRUE]

\* setCompressedItem(key, value) on the item of one key. F names the setItem
\* calls that throw (quota): "compressedWrite", "plainWrite".
setCompressedItem(item, value, F) ==
  IF "compressedWrite" \notin F
  THEN [item |-> compressToBase64(stringify(value)), wrote |-> "compressed"]
  ELSE IF "plainWrite" \notin F
  THEN [item |-> stringify(value), wrote |-> "plain"]
  ELSE [item |-> item, wrote |-> "failed"]
\* getCompressedItem(key): null for no item; the parsed decompression when the
\* decompression is non-empty; the plain parse only when that parse throws.
getCompressedItem(item) ==
  IF item = <<>> THEN NoResult
  ELSE Only({IF ~decompressed.null /\ decompressed.text # <<>>
             THEN IF ~parse(decompressed.text).threw THEN parse(decompressed.text)
                  ELSE IF parse(item).threw THEN NoResult ELSE parse(item)
             ELSE NoResult :
               decompressed \in {decompressFromBase64(item)}})

MaxText == 4
RECURSIVE TextsOf(_)
TextsOf(n) ==
  IF n = 0 THEN {<<>>}
  ELSE Only({T \cup {Append(t, ch) : t \in T, ch \in Letters} : T \in {TextsOf(n - 1)}})
InputTexts == TextsOf(MaxText)
JsonValues == {Str(t) : t \in TextsOf(1)} \cup {Lit(n) : n \in Literals}

\* One text through the codec, and one item written and read back.
CompressText ==
  /\ lz.pc = "idle"
  /\ lz' = [lz EXCEPT !.pc = "compressed", !.c = compressToBase64(lz.x)]
  /\ UNCHANGED <<envVars, adapterVars, backendVars, observed, last, ops, posts, dataEntries, safetyBackup, mig>>
DecompressText ==
  /\ lz.pc = "compressed"
  /\ lz' = [lz EXCEPT !.pc = "decompressed", !.y = decompressFromBase64(lz.c)]
  /\ UNCHANGED <<envVars, adapterVars, backendVars, observed, last, ops, posts, dataEntries, safetyBackup, mig>>
SetCompressedItem ==
  /\ lz.wrote = "none"
  /\ \E value \in JsonValues, F \in {{}, {"compressedWrite"}, {"compressedWrite", "plainWrite"}} :
       \E r \in {setCompressedItem(lz.item, value, F)} :
         lz' = [lz EXCEPT !.value = value, !.item = r.item, !.wrote = r.wrote]
  /\ UNCHANGED <<envVars, adapterVars, backendVars, observed, last, ops, posts, dataEntries, safetyBackup, mig>>
\* A writer from before the compression stored the plain JSON text.
LegacySetItem ==
  /\ lz.wrote = "none"
  /\ \E value \in JsonValues :
       lz' = [lz EXCEPT !.value = value, !.item = stringify(value), !.wrote = "legacy"]
  /\ UNCHANGED <<envVars, adapterVars, backendVars, observed, last, ops, posts, dataEntries, safetyBackup, mig>>
GetCompressedItem ==
  /\ lz.wrote \in {"compressed", "plain", "legacy"} /\ ~lz.read
  /\ lz' = [lz EXCEPT !.read = TRUE, !.got = getCompressedItem(lz.item)]
  /\ UNCHANGED <<envVars, adapterVars, backendVars, observed, last, ops, posts, dataEntries, safetyBackup, mig>>
InitCompression ==
  /\ \E x \in InputTexts : lz = [NoItem EXCEPT !.x = x]
  /\ mig = NoMigration
  /\ serverUp = FALSE /\ dirAccess = "unasked"
  /\ mode = "localStorage" /\ initialized = TRUE /\ initPc = "done"
  /\ observed = {} /\ tlReady = FALSE
  /\ srvEntries = NoEntries /\ srvImages = NoImages /\ srvConfig = NoConfigs
  /\ lfHandles = [dir |-> FALSE, images |-> FALSE] /\ lfEntries = NoEntries
  /\ dirEntries = NoEntries /\ dirImages = NoImages
  /\ lsStorage = NoStorage /\ lsImages = <<>>
  /\ fsEntries = NoEntries /\ fsConfig = [k \in Keys |-> EmptyCfg]
  /\ idbEntries = NoEntries /\ idbImages = NoImages
  /\ idbConfigs = [k \in Keys \cup {MIGRATION_STATUS} |->
                      IF k \in Keys THEN NoCfg ELSE NoStatus]
  /\ idbPending = {} /\ idbLog = {} /\ keyOrder = <<>>
  /\ last = NoCall /\ ops = 0
  /\ posts = [i \in Ids |-> NoPost] /\ dataEntries = [i \in Ids |-> NoRecord]
  /\ safetyBackup = NoBackup
CompressionNext ==
  CompressText \/ DecompressText \/ SetCompressedItem \/ LegacySetItem \/ GetCompressedItem
CompressionSpec == InitCompression /\ [][CompressionNext]_vars

\* C27: the Base64 round trip gives back every text, the empty one too, and an
\* item read with getCompressedItem after setCompressedItem stored it is the
\* value given to setCompressedItem.
C27_RoundTrip ==
  /\ lz.pc = "decompressed" => (~lz.y.null /\ lz.y.text = lz.x)
  /\ (lz.wrote \in {"compressed", "plain"} /\ lz.read) =>
       (~lz.got.null /\ ~lz.got.threw /\ lz.got.value = lz.value)
\* C28: an item stored as plain JSON text, by a legacy write or by the fallback
\* of setCompressedItem, reads back as the parsed value, never as null.
C28_PlainItemReadsBack ==
  (lz.wrote \in {"plain", "legacy"} /\ lz.read) =>
    (~lz.got.null /\ ~lz.got.threw /\ lz.got.value = lz.value)

\* ============================================ FileStorageManager: eviction
\* localStorage already holds the images of n earlier records, saved one after
\* the other: record NumIds + k was the k-th, so lsImages has them oldest first.
ImageCounts == {0, 30, 31, 50, 51, 52}
OldIds(n) == (NumIds + 1)..(NumIds + n)
OldEntry(i) == [id |-> i, query |-> "Q1", image |-> KeyRef, updatedAt |-> 0]
EvictionFaults ==
  {{}, {"usageHigh"}, {"usageHigh", "hashOrder"}, {"quota"}, {"quota", "quotaRetry"},
   {"dataQuota"}, {"neverLoads"},
   {"quota", "quotaRetry", "freed"}, {"quota", "quotaRetry", "freed", "hashOrder"}}
InitEviction ==
  /\ \E n \in ImageCounts :
       /\ lsImages = [k \in 1..n |-> <<ImageKey(NumIds + k), DataURI("jpeg", "A", "q70")>>]
       /\ fsEntries = [i \in Ids \cup OldIds(n) |-> IF i \in Ids THEN Absent ELSE OldEntry(i)]
       /\ keyOrder = [k \in 1..n |-> NumIds + k]
  /\ fsConfig = [k \in Keys |-> EmptyCfg]
  /\ lsStorage = [present |-> TRUE, entries |-> fsEntries, cfg |-> fsConfig]
  /\ serverUp = FALSE /\ dirAccess = "unasked"
  /\ mode = "fileSystem" /\ initialized = TRUE /\ initPc = "done"
  /\ observed = {} /\ tlReady = FALSE
  /\ srvEntries = NoEntries /\ srvImages = NoImages /\ srvConfig = NoConfigs
  /\ lfHandles = [dir |-> FALSE, images |-> FALSE] /\ lfEntries = NoEntries
  /\ dirEntries = NoEntries /\ dirImages = NoImages
  /\ idbEntries = NoEntries /\ idbImages = NoImages
  /\ idbConfigs = [k \in Keys \cup {MIGRATION_STATUS} |->
                      IF k \in Keys THEN NoCfg ELSE NoStatus]
  /\ idbPending = {} /\ idbLog = {}
  /\ last = NoCall /\ ops = 0
  /\ posts = [i \in Ids |-> NoPost] /\ dataEntries = [i \in Ids |-> NoRecord]
  /\ safetyBackup = NoBackup /\ mig = NoMigration /\ lz = NoItem
\* saveEntry of a record with an image, under each storage condition.
EvictingSave ==
  /\ ensureInitialized /\ ops < MaxOps
  /\ \E i \in Ids, F \in EvictionFaults :
       \E entry \in {[id |-> i, query |-> "Q1", image |-> DataURI("png", "B", "orig"),
                       updatedAt |-> ops + 1]} :
       /\ Call("saveEntry", entry.id, "-", entry, NoCfg, F,
               Adapter_saveEntry(mode, World, entry, F))
EvictionSpec == InitEviction /\ [][EvictingSave \/ DeleteEntry]_vars

\* The image keys a step removed, by their place in the insertion order; the
\* key the save itself writes is left out.
Evicted(n) == ~LsHas(lsImages', lsImages[n][1])
Found == {n \in 1..Len(lsImages) : lsImages[n][1] # ImageKey(last'.id)}
SavedWith(flag) == ops' = ops + 1 /\ last'.op = "saveEntry" /\ flag \in last'.faults
\* C29: a save that starts above 80% usage leaves at most 50 of the images it
\* found, and evicts oldest first: no newer image goes while an older one stays.
C29_EvictsOldestFirst ==
  [][SavedWith("usageHigh") =>
       /\ Cardinality({n \in Found : ~Evicted(n)}) <= KeepImages
       /\ \A p, q \in Found : (p < q /\ Evicted(q)) => Evicted(p)]_vars
\* C30: a save whose image write exceeds the quota evicts the oldest images,
\* retries, and succeeds.
C30_QuotaEvictsThenSucceeds ==
  [][SavedWith("quota") =>
       /\ \E n \in Found : Evicted(n)
       /\ \A p, q \in Found : (p < q /\ Evicted(q)) => Evicted(p)
       /\ last'.ok /\ ~last'.failed
       /\ LsHas(lsImages', ImageKey(last'.id))]_vars

\* C31: an image write over the quota is retried at the lossier quality, and a
\* saveEntry that does not throw has stored the record's text and its image;
\* when the image or the data cannot be written saveEntry throws.
C31_NoSilentLoss ==
  [][(ops' = ops + 1 /\ last'.op = "saveEntry") =>
       /\ last'.faults = {"quota"} =>
            (last'.ok /\ LsGet(lsImages', ImageKey(last'.id)) = compressImage(last'.arg.image, "q40"))
       /\ last'.ok =>
            /\ LsHas(lsImages', ImageKey(last'.id))
            /\ lsStorage'.entries[last'.id] = [last'.arg EXCEPT !.image = KeyRef]
       /\ (last'.faults = {"quota", "quotaRetry"} \/ "dataQuota" \in last'.faults) => ~last'.ok]_vars
C31_SaveThrewOnFullStorage ==
  /\ mode = "fileSystem" /\ last.op = "saveEntry" /\ ~last.ok
  /\ last.faults = {"quota", "quotaRetry"}

\* C36: every record of the localStorage-backed store that names an image key
\* has that image in localStorage.
C36_NoDanglingImageKey ==
  \A i \in DOMAIN fsEntries :
    (fsEntries[i] # Absent /\ fsEntries[i].image.kind = "key") =>
      LsHas(lsImages, ImageKey(i))

\* C37: after a saveEntry of a record without image has succeeded, getEntry of
\* its id gives a record without image.
C37_SaveWithoutImageDropsImage ==
  (ensureInitialized /\ last.op = "saveEntry" /\ last.ok /\ ~last.failed
     /\ last.arg.image = NoImage) =>
    Adapter_getEntry(mode, World, last.id, {}).entry.image = NoImage

\* C38: in IndexedDB mode, when no background image write is in flight and none
\* has failed for the id, the image row of the id last saved is the image given
\* to that saveEntry, and the id last deleted has no image row.
C38_BackgroundWritesInOrder ==
  (mode = "indexedDB" /\ idbPending = {} /\ last.ok /\ ~last.failed
     /\ last.id \notin idbLog) =>
    /\ (last.op = "saveEntry" /\ last.arg.image # NoImage) =>
         idbImages[last.id] = last.arg.image
    /\ last.op = "deleteEntry" => idbImages[last.id] = NoImage

\* getStorageStats of FileStorageManager: the keys of storageData.entries and
\* the image_ keys of localStorage.
Fs_getStorageStats(w) ==
  [entryCount |-> Cardinality(IdsOf(w.fsEntries)),
   imageCount |-> Len(SelectSeq(w.lsImages, LAMBDA p : p[1][1] = "image_"))]
\* C33: after a clearAll that succeeded getAllEntries is empty, no image of any
\* record is left in storage, and the statistics count no entry and no image.
C33_ClearAllResets ==
  (ensureInitialized /\ last.op = "clearAll" /\ last.ok /\ ~last.failed) =>
    /\ Adapter_getAllEntries(mode, World, {}).list = <<>>
    /\ \A i \in Ids : ~ImageBytesStored(i)
    /\ mode = "fileSystem" =>
         Fs_getStorageStats(World) = [entryCount |-> 0, imageCount |-> 0]

\* C34: a cold start ends in the mode its environment determines: the mode of
\* the server file store when the server answers, the browser file store when
\* it does not, whatever the answer to the directory request. Two cold starts
\* in one environment therefore end in the same mode.
SelectedMode(up, access) == IF up THEN "trueLocalFile" ELSE "localFile"
C34_SelectionDeterministic ==
  initPc = "done" => mode = SelectedMode(serverUp, dirAccess)
C34_ColdStartFellBack ==
  initPc = "done" /\ ~serverUp /\ dirAccess = "noPicker" /\ mode = "localFile"

\* C35: a restoreBackup that failed settles after at most one attempt to
\* restore the safety backup.
C35_OneSafetyAttempt ==
  last.op = "restoreBackup" => (last.settled /\ last.attempts <= 1)

\* ------------------------------------------------------------------------
\* C32: saveEntry of a record that carries an image always completes, with
\* success or with an error, even when the image never loads or never decodes.
C32_SaveAlwaysCompletes ==
  (last.op = "saveEntry" /\ last.arg.image # NoImage) => last.settled

\* ------------------------------------------------------------ application start
\* getDefaultTagConfigs() and getInitialAppState().exportConfig: the configuration
\* the application state holds before anything is loaded.
DefaultCfg == "default"

\* App's mount effect and the config-save effect that follows it: loadInitialData
\* reads the entries and both configs, puts what it read (or the defaults, for a
\* null or empty tagConfigs and a null exportConfig) into the state and clears
\* isLoading; the save effect then runs and writes both configs of the state.
AppStart ==
  /\ ensureInitialized /\ ops < MaxOps
  /\ \E Ft \in FaultsOf(mode, "getConfig"), Fe \in FaultsOf(mode, "getConfig"),
        Fw \in FaultsOf(mode, "saveConfig") :
       LET entries == Adapter_getAllEntries(mode, World, {})
           tags == Adapter_getConfig(mode, entries.w, "tagConfigs", Ft)
           export == Adapter_getConfig(mode, tags.w, "exportConfig", Fe)
           tagConfigs == IF tags.cfg \notin {NoCfg, EmptyCfg} THEN tags.cfg ELSE DefaultCfg
           exportConfig == IF export.cfg # NoCfg THEN export.cfg ELSE DefaultCfg
           saveTags == Adapter_saveConfig(mode, export.w, "tagConfigs", tagConfigs, Fw)
           saveExport == Adapter_saveConfig(mode, saveTags.w, "exportConfig",
                                            exportConfig, Fw)
       IN Call("loadInitialData", 0, "-", Absent, NoCfg, Ft \cup Fe \cup Fw,
               Done(saveExport.w, tags.failed \/ export.failed))

StartupNext == SaveConfig \/ AppStart
StartupSpec == InitBackend /\ [][StartupNext]_vars

\* C39: a failed or empty read of tagConfigs or exportConfig at application start
\* never replaces a persisted configuration by the defaults: a configuration the
\* user had saved is, after the start, unchanged or a value the user set.
C39_StartupKeepsConfigs ==
  [][last'.op = "loadInitialData" =>
       \A k \in Keys :
         StoredConfig(k) \in CfgVals =>
           (StoredConfig(k)' = StoredConfig(k) \/ StoredConfig(k)' \in CfgVals)]_vars

\* -------------------------------------------------------------- optimizeStorage
\* Sizes are counted in units of 1024 characters of JSON text.
MaxHistory == 4                     \* history items of a stored record
MaxEntrySize == 1024                \* entrySize > 1024 * 1024
KeepHistory == 3                    \* history.length > 3, history.slice(-3)
\* A history item is the size of its JSON text: a short one, or one that carries
\* the changes of long text fields.
HistorySizes == {1, 400}
Histories == UNION {[1..n -> HistorySizes] : n \in 0..MaxHistory}
Sum(seq) == LET RECURSIVE sum(_)
                sum(n) == IF n = 0 THEN 0 ELSE seq[n] + sum(n - 1)
            IN sum(Len(seq))
\* The length of an image string: nothing, a 150px thumbnail, a full image.
ImageSize(img) == IF img = NoImage THEN 0 ELSE IF img.q = "thumb" THEN 10 ELSE 2000
\* JSON.stringify(entry).length
entrySize(entry) == 1 + ImageSize(entry.image) + Sum(entry.history)
\* history.slice(-3)
slice(history, n) ==
  IF Len(history) <= n THEN history
  ELSE SubSeq(history, Len(history) - n + 1, Len(history))

\* The loop of optimizeStorage over what getAllEntries returned: a record above
\* the size limit with more than three history items is cut and saved again; a
\* saveEntry that throws ends the loop in the catch block. cleanupExpiredData and
\* the removal of temp_ and cache_ keys touch no record.
RECURSIVE optimizeEntries(_, _, _, _)
optimizeEntries(w, entries, n, F) ==
  IF n > Len(entries) THEN Done(w, FALSE)
  ELSE LET entry == entries[n]
       IN IF entrySize(entry) > MaxEntrySize /\ Len(entry.history) > KeepHistory
          THEN LET save == Db_saveEntry(w, [entry EXCEPT !.history =
                                              slice(entry.history, KeepHistory)], F)
               IN IF save.ok THEN optimizeEntries(save.w, entries, n + 1, F)
                  ELSE Outcome(save.w, FALSE, TRUE, Absent, NoCfg, <<>>)
          ELSE optimizeEntries(w, entries, n + 1, F)
optimizeStorage(w, F) == optimizeEntries(w, Db_getAllEntries(w, {}).list, 1, F)

\* The IndexedDB store holds one record whose history and image vary and, under
\* every other id, a small record with an image.
InitOptimize ==
  /\ \E history \in Histories, image \in {NoImage, DataURI("jpeg", "A", "orig")} :
       /\ idbEntries = [i \in Ids |->
                          [id |-> i, query |-> "Q1", image |-> NoImage, updatedAt |-> i,
                           version |-> IF i = 1 THEN Len(history) + 1 ELSE 5,
                           history |-> IF i = 1 THEN history ELSE <<1, 1, 1, 1>>]]
       /\ idbImages = [i \in Ids |->
                         IF i = 1 THEN image ELSE DataURI("png", "B", "orig")]
  /\ serverUp = FALSE /\ dirAccess = "unasked"
  /\ mode = "indexedDB" /\ initialized = TRUE /\ initPc = "done"
  /\ observed = {} /\ tlReady = FALSE
  /\ srvEntries = NoEntries /\ srvImages = NoImages /\ srvConfig = NoConfigs
  /\ lfHandles = [dir |-> FALSE, images |-> FALSE] /\ lfEntries = NoEntries
  /\ dirEntries = NoEntries /\ dirImages = NoImages
  /\ lsStorage = NoStorage /\ lsImages = <<>>
  /\ fsEntries = NoEntries /\ fsConfig = [k \in Keys |-> EmptyCfg]
  /\ idbConfigs = NoConfigs
  /\ idbPending = {} /\ idbLog = {} /\ keyOrder = <<>>
  /\ last = NoCall /\ ops = 0
  /\ posts = [i \in Ids |-> NoPost] /\ dataEntries = [i \in Ids |-> NoRecord]
  /\ safetyBackup = NoBackup
  /\ mig = NoMigration
  /\ lz = NoItem

OptimizeStorage ==
  /\ ops < MaxOps
  /\ \E F \in DbFaults("saveEntry") :
       Call("optimizeStorage", 0, "-", Absent, NoCfg, F, optimizeStorage(World, F))

OptimizeNext == OptimizeStorage \/ ImageSaveSettles
OptimizeSpec == InitOptimize /\ [][OptimizeNext]_vars

\* C40: optimizeStorage changes nothing in the stored records except cutting the
\* history of a record above the size limit to its last three items: across the
\* call and the writes it starts, every record keeps its id, text fields, version
\* and full-resolution image, and a record within the limit is not written.
C40_OnlyHistoryChanges ==
  [][\A i \in Ids :
       LET before == Db_getEntry(World, i, {}).entry
           after == Db_getEntry(World, i, {}).entry'
           size == entrySize(Db_row(World, i, TRUE))
       IN /\ after.id = before.id /\ after.query = before.query
          /\ after.version = before.version /\ after.updatedAt = before.updatedAt
          /\ after.image = before.image
          /\ after.history \in {before.history, slice(before.history, KeepHistory)}
          /\ size <= MaxEntrySize =>
                /\ idbEntries'[i] = idbEntries[i]
                /\ \A task \in idbPending' \ idbPending : task[1] # i]_vars

====
